---------------------------- MODULE Spec2Model ----------------------------
(***************************************************************************)
(* Model of the skeletal animation core of ModelRigger:                    *)
(*   - the bone correspondence matcher        (src/utils/math.ts)          *)
(*   - the skin weight solver                 (src/utils/autoRig.ts)       *)
(*   - the skeleton made from rig markers     (src/utils/autoRig.ts)       *)
(*   - the retarget worker and its IK solver  (src/unnamed/part_013,       *)
(*                                             src/services/retarget.worker.ts) *)
(*   - the caller of the worker, runRetarget  (src/unnamed/part_007)       *)
(* Every subsystem has its own specification over the shared variables.    *)
(***************************************************************************)
EXTENDS Integers, Sequences, FiniteSets, TLC

VARIABLES
    \* ---- bone correspondence matcher (math.ts) ----
    targetBones,     \* names of targetSkeleton.bones, in order
    sourceBones,     \* names of sourceSkeleton.bones, in order
    matchDone,       \* TRUE once matchBones has returned
    mapping,         \* the Record<string,string> matchBones returns
    commits,         \* the assignments matchBones committed, in order
    \* ---- skin weight solver (autoRig.ts) ----
    segments,        \* the BoneSegment[] handed to calculateWeightsForVertex
    vertex,          \* <<x>>, the vertex of the last call (<<>> before the first)
    outIndices,      \* the caller's idx scratch array (4 slots)
    outWeights,      \* the caller's wgt scratch array (4 slots)
    \* ---- the store and runRetarget (part_007, store.ts, part_002) ----
    scene,           \* the assets, bone mapping and settings in the store
    inputsReady,     \* FALSE when runRetarget's precondition checks fail
    cpc,             \* runRetarget: "idle", "rejected", "dispatched"
    isLoading,       \* store.loading.isLoading
    workerStatus,    \* globalWorkerStatus: "IDLE", "ACTIVE", "ERROR"
    logs,            \* the levels and kinds of the log entries, in order
    activeClip,      \* <<>> for null, <<tracks>> once setActiveClip ran
    timer,           \* the 60 s timeout: "unset", "armed", "fired", "cleared"
    workerState,     \* the Worker object: "none", "alive", "terminated"
    toWorker,        \* messages posted to the worker, not yet received
    toMain,          \* messages posted by the worker, not yet handled
    crashPending,    \* an error event of the worker waits for onerror
    \* ---- the retarget worker (part_013) ----
    wpc,             \* "loading", "waiting", "v1", "v2", "build", "done", "crashed"
    req,             \* e.data of the request being handled (<<>> before)
    frame,           \* i of the frame loop
    loc,             \* the constants of the handler (Setup), <<>> before
    resultData,      \* per target bone: times, rotValues, posValues
    vSrc,            \* the source VirtualSkeleton
    vTgt,            \* the target VirtualSkeleton
    temps,           \* the scratch vectors _v1, _v2, _v3
    ik,              \* the solver calls of the last V2 pass
    posted,          \* the types of the messages the worker posted, in order
    \* ---- a call of solveTwoBoneIK on its own ----
    ikIn,            \* <<>> or the skeleton and the target of the call
    ikOut,           \* <<>> or what the call did: passes and distances
    \* ---- rigging from markers (autoRig.ts) ----
    rigMarkers,      \* the markers record: marker name -> position
    rigVerts,        \* the number of vertices of the mesh geometry
    rigOut,          \* <<>> or the outcome of createRiggedCharacter
    previewOut,      \* <<>> or the outcome of computeWeightPreviewFromMarkers
    \* ---- undo and redo of the store (history.ts, store.ts) ----
    boneMapping,     \* store.boneMapping
    riggingMarkers,  \* store.riggingMarkers
    retargetSettings, \* store.retargetSettings
    riggingMirrorEnabled, \* store.riggingMirrorEnabled
    _past,           \* the undo stack, oldest snapshot first
    _future,         \* the redo stack
    _cachedSnapshot, \* what getHistoryState returns
    lastCall,        \* the last call: its name, the tracked slices before it, its result
    calls            \* the number of calls made

matchVars == <<targetBones, sourceBones, matchDone, mapping, commits>>
weightVars == <<segments, vertex, outIndices, outWeights>>
callerVars == <<scene, inputsReady, cpc, isLoading, workerStatus, logs, activeClip,
                timer, workerState, toWorker, toMain, crashPending>>
workerVars == <<wpc, req, frame, loc, resultData, vSrc, vTgt, temps, ik, posted>>
retargetVars == <<callerVars, workerVars>>
ikVars == <<ikIn, ikOut>>
rigVars == <<rigMarkers, rigVerts, rigOut, previewOut>>
storeVars == <<boneMapping, riggingMarkers, retargetSettings, riggingMirrorEnabled>>
historyVars == <<storeVars, _past, _future, _cachedSnapshot, lastCall, calls>>

vars == <<matchVars, weightVars, retargetVars, ikVars, rigVars, historyVars>>

(***************************************************************************)
(* Bounds of the model and constants of the program.                       *)
(***************************************************************************)
\* math.ts:173, the score floor of the greedy assignment
MinScore == 40
\* bones per skeleton handed to matchBones
MaxBones == 2
\* bone names the skeletons draw from: a Mixamo name and three aliases of
\* it, names that normalise to the empty string, and two near-miss names
BoneNamePool == {"mixamorig:LeftArm", "L_Arm", "LeftArm", "L_UpperArm", "", "1", "Wing", "Ring"}
\* segments per list handed to the weight solver
MaxSegs == 5
\* autoRig.ts:748, the slots of the shared _tempBoneWeights buffer
TempSlots == 30
\* autoRig.ts:783, influences kept per vertex
Influences == 4

(***************************************************************************)
(* Generic helpers.                                                        *)
(***************************************************************************)
Max(a, b) == IF a >= b THEN a ELSE b
Min(a, b) == IF a <= b THEN a ELSE b

Range(s) == {s[i] : i \in DOMAIN s}

\* All sequences over S of length at most n.
SeqsUpTo(S, n) == UNION {[1..k -> S] : k \in 0..n}

(***************************************************************************)
(* JavaScript strings.  A name is a TLA+ string; CharAt reads one          *)
(* character, as s[i] does in the source (1-based here).                   *)
(***************************************************************************)
CharAt(s, i) == SubSeq(s, i, i)

\* String.prototype.includes
Includes(s, sub) ==
    \E i \in 1..(Len(s) - Len(sub) + 1) : SubSeq(s, i, i + Len(sub) - 1) = sub

UpperChars == "ABCDEFGHIJKLMNOPQRSTUVWXYZ"
LowerChars == "abcdefghijklmnopqrstuvwxyz"
Digits == {"0", "1", "2", "3", "4", "5", "6", "7", "8", "9"}

LowerChar(c) ==
    IF \E i \in 1..26 : CharAt(UpperChars, i) = c
    THEN CharAt(LowerChars, CHOOSE i \in 1..26 : CharAt(UpperChars, i) = c)
    ELSE c

\* String.prototype.toLowerCase
RECURSIVE toLowerCase(_)
toLowerCase(s) ==
    IF s = "" THEN "" ELSE LowerChar(CharAt(s, 1)) \o toLowerCase(Tail(s))

\* s.replace(/tok[opt]?/g, ''): scan left to right, drop every occurrence of
\* tok together with one following character of opt when there is one.
RECURSIVE RemoveToken(_, _, _)
RemoveToken(s, tok, opt) ==
    IF s = "" THEN ""
    ELSE IF Len(s) >= Len(tok) /\ SubSeq(s, 1, Len(tok)) = tok
         THEN LET rest == SubSeq(s, Len(tok) + 1, Len(s))
              IN  IF rest # "" /\ CharAt(rest, 1) \in opt
                  THEN RemoveToken(Tail(rest), tok, opt)
                  ELSE RemoveToken(rest, tok, opt)
         ELSE CharAt(s, 1) \o RemoveToken(Tail(s), tok, opt)

\* s.replace(/[chars]/g, '')
RECURSIVE RemoveChars(_, _)
RemoveChars(s, chars) ==
    IF s = "" THEN ""
    ELSE IF CharAt(s, 1) \in chars THEN RemoveChars(Tail(s), chars)
         ELSE CharAt(s, 1) \o RemoveChars(Tail(s), chars)

\* s.replace(/\d+$/g, '')
RECURSIVE StripTrailingDigits(_)
StripTrailingDigits(s) ==
    IF s # "" /\ CharAt(s, Len(s)) \in Digits
    THEN StripTrailingDigits(SubSeq(s, 1, Len(s) - 1))
    ELSE s

\* String.prototype.trim (the names of the model carry blanks only)
RECURSIVE trim(_)
trim(s) ==
    IF s # "" /\ CharAt(s, 1) = " " THEN trim(Tail(s))
    ELSE IF s # "" /\ CharAt(s, Len(s)) = " " THEN trim(SubSeq(s, 1, Len(s) - 1))
    ELSE s

(***************************************************************************)
(* math.ts: the alias dictionary, name normalisation and scoring.          *)
(***************************************************************************)
BONE_ALIAS_GROUPS == <<
    <<"hips", "pelvis", "root", "hip", "cog", "center", "torso">>,
    <<"spine", "spine1", "abdomen", "abdominal">>,
    <<"spine1", "spine2", "chest_lower", "lowerchest">>,
    <<"spine2", "spine3", "chest", "upperchest", "upper_body">>,
    <<"neck", "neck1">>,
    <<"head", "skull">>,
    <<"leftshoulder", "lshoulder", "l_clavicle", "clavicle_l", "shoulder_l">>,
    <<"leftarm", "larm", "l_upperarm", "upperarm_l", "lbicep", "l_arm">>,
    <<"leftforearm", "lforearm", "l_lowerarm", "lowerarm_l", "l_forearm", "lcalf">>,
    <<"lefthand", "lhand", "l_hand", "hand_l", "l_wrist", "wrist_l">>,
    <<"rightshoulder", "rshoulder", "r_clavicle", "clavicle_r", "shoulder_r">>,
    <<"rightarm", "rarm", "r_upperarm", "upperarm_r", "rbicep", "r_arm">>,
    <<"rightforearm", "rforearm", "r_lowerarm", "lowerarm_r", "r_forearm", "rcalf">>,
    <<"righthand", "rhand", "r_hand", "hand_r", "r_wrist", "wrist_r">>,
    <<"leftupleg", "lupleg", "l_thigh", "thigh_l", "l_upperleg", "upperleg_l", "leftthigh">>,
    <<"leftleg", "lleg", "l_calf", "calf_l", "l_shin", "shin_l", "l_lowerleg", "lowerleg_l">>,
    <<"leftfoot", "lfoot", "l_foot", "foot_l", "l_ankle", "ankle_l">>,
    <<"lefttoebase", "ltoebase", "l_toe", "toe_l", "l_ball", "ball_l", "lefttoe">>,
    <<"rightupleg", "rupleg", "r_thigh", "thigh_r", "r_upperleg", "upperleg_r", "rightthigh">>,
    <<"rightleg", "rleg", "r_calf", "calf_r", "r_shin", "shin_r", "r_lowerleg", "lowerleg_r">>,
    <<"rightfoot", "rfoot", "r_foot", "foot_r", "r_ankle", "ankle_r">>,
    <<"righttoebase", "rtoebase", "r_toe", "toe_r", "r_ball", "ball_r", "righttoe">>
>>

normalizeBoneName(name) ==
    LET s1 == toLowerCase(name)
        s2 == RemoveToken(s1, "mixamorig", {":"})
        s3 == RemoveToken(s2, "bip01", {"_", " "})
        s4 == RemoveToken(s3, "def", {"_", "-"})
        s5 == RemoveToken(s4, "org", {"_", "-"})
        s6 == RemoveToken(s5, "mch", {"_", "-"})
        s7 == RemoveChars(s6, {"_", ".", "-", ":"})
        s8 == StripTrailingDigits(s7)
    IN  trim(s8)

\* One row of the edit-distance matrix: row i from row i-1 (prev), for the
\* character ca = a[i-1]; the row is matrix[i][0..Len(b)], stored 1-based.
RECURSIVE LevRow(_, _, _, _, _)
LevRow(prev, ca, b, i, acc) ==
    LET j == Len(acc)   \* next column to fill is j (0-based); acc holds 0..j-1
    IN  IF j > Len(b) THEN acc
        ELSE IF j = 0 THEN LevRow(prev, ca, b, i, <<i>>)
        ELSE LET cost == IF ca = CharAt(b, j) THEN 0 ELSE 1
                 v == Min(Min(prev[j + 1] + 1, acc[j] + 1), prev[j] + cost)
             IN  LevRow(prev, ca, b, i, Append(acc, v))

RECURSIVE LevRows(_, _, _, _)
LevRows(a, b, i, prev) ==
    IF i > Len(a) THEN prev
    ELSE LevRows(a, b, i + 1, LevRow(prev, CharAt(a, i), b, i, <<>>))

levenshtein(a, b) ==
    IF Len(a) = 0 THEN Len(b)
    ELSE IF Len(b) = 0 THEN Len(a)
    ELSE LevRows(a, b, 1, [j \in 1..(Len(b) + 1) |-> j - 1])[Len(b) + 1]

\* Math.round(num / den) for num >= 0, den > 0
RoundDiv(num, den) == (2 * num + den) \div (2 * den)

InAliasGroup(norm, aliases) ==
    \E k \in DOMAIN aliases : norm = aliases[k] \/ Includes(norm, aliases[k])

scoreBoneMatch(targetName, sourceName) ==
    LET tNorm == normalizeBoneName(targetName)
        sNorm == normalizeBoneName(sourceName)
        longerLen == Max(Len(tNorm), Len(sNorm))
        shorterLen == Min(Len(tNorm), Len(sNorm))
        dist == levenshtein(tNorm, sNorm)
    IN  IF tNorm = sNorm THEN 100
        ELSE IF \E g \in DOMAIN BONE_ALIAS_GROUPS :
                    /\ InAliasGroup(tNorm, BONE_ALIAS_GROUPS[g])
                    /\ InAliasGroup(sNorm, BONE_ALIAS_GROUPS[g])
             THEN 90
        ELSE IF /\ Len(tNorm) >= 3 /\ Len(sNorm) >= 3
                /\ (Includes(tNorm, sNorm) \/ Includes(sNorm, tNorm))
             THEN 60 + RoundDiv(shorterLen * 30, longerLen)
        \* similarity = 1 - dist/maxLen >= 0.6  <=>  5 * dist <= 2 * maxLen
        ELSE IF longerLen > 0 /\ longerLen <= 20 /\ 5 * dist <= 2 * longerLen
             THEN RoundDiv((longerLen - dist) * 70, longerLen)
        ELSE 0


(***************************************************************************)
(* math.ts: matchBones.                                                    *)
(***************************************************************************)
\* The forEach/forEach of lines 159-166: every pair with a positive score,
\* target-major, in skeleton order.
RECURSIVE CandidatesFrom(_, _, _, _)
CandidatesFrom(tb, sb, i, j) ==
    IF i > Len(tb) THEN <<>>
    ELSE IF j > Len(sb) THEN CandidatesFrom(tb, sb, i + 1, 1)
    ELSE LET score == scoreBoneMatch(tb[i], sb[j])
             rest == CandidatesFrom(tb, sb, i, j + 1)
         IN  IF score > 0
             THEN <<[target |-> tb[i], source |-> sb[j], score |-> score]>> \o rest
             ELSE rest

\* candidates.sort((a, b) => b.score - a.score): Array.prototype.sort is
\* stable, so equal scores keep their insertion order.
RECURSIVE InsertByScore(_, _)
InsertByScore(sorted, c) ==
    IF sorted = <<>> THEN <<c>>
    ELSE IF Head(sorted).score >= c.score
         THEN <<Head(sorted)>> \o InsertByScore(Tail(sorted), c)
         ELSE <<c>> \o sorted

RECURSIVE SortByScore(_, _)
SortByScore(cands, acc) ==
    IF cands = <<>> THEN acc
    ELSE SortByScore(Tail(cands), InsertByScore(acc, Head(cands)))

\* JavaScript truthiness of mapping[target]: undefined and '' are falsy.
Truthy(m, key) == key \in DOMAIN m /\ m[key] # ""

\* mapping[target] = source
SetKey(m, key, val) == [k \in (DOMAIN m) \cup {key} |-> IF k = key THEN val ELSE m[k]]

\* A slip of line 176 that forgets the usedSources half of the test.
AlreadyAssignedTargetOnly(m, usedSources, target, source) == Truthy(m, target)

\* Line 176: if (mapping[target] || usedSources.has(source)) continue;
AlreadyAssigned(m, usedSources, target, source) ==
    Truthy(m, target) \/ source \in usedSources

\* The greedy loop of lines 171-180 over the sorted candidates.
RECURSIVE GreedyAssign(_, _, _, _)
GreedyAssign(sorted, m, usedSources, log) ==
    IF sorted = <<>> THEN [mapping |-> m, commits |-> log]
    ELSE LET c == Head(sorted)
         IN  IF c.score < MinScore THEN [mapping |-> m, commits |-> log]
             ELSE IF AlreadyAssigned(m, usedSources, c.target, c.source)
                  THEN GreedyAssign(Tail(sorted), m, usedSources, log)
                  ELSE GreedyAssign(Tail(sorted), SetKey(m, c.target, c.source),
                                    usedSources \cup {c.source}, Append(log, c))

SortedCandidates(tb, sb) == SortByScore(CandidatesFrom(tb, sb, 1, 1), <<>>)

matchBones(tb, sb) == GreedyAssign(SortedCandidates(tb, sb), <<>>, {}, <<>>)

\* The weight solver's variables while another subsystem is under study.
IdleWeights ==
    /\ segments = <<>>
    /\ vertex = <<>>
    /\ outIndices = <<0, 0, 0, 0>>
    /\ outWeights = <<0, 0, 0, 0>>

\* the store, the caller and the worker before runRetarget is invoked
IdleIK == ikIn = <<>> /\ ikOut = <<>>

IdleRig == rigMarkers = <<>> /\ rigVerts = 0 /\ rigOut = <<>> /\ previewOut = <<>>

IdleHistory ==
    /\ boneMapping = {}
    /\ riggingMarkers = <<>>
    /\ retargetSettings = <<>>
    /\ riggingMirrorEnabled = TRUE
    /\ _past = <<>>
    /\ _future = <<>>
    /\ _cachedSnapshot = <<>>
    /\ lastCall = <<>>
    /\ calls = 0

IdleRetarget ==
    /\ scene = <<>>
    /\ inputsReady = FALSE
    /\ cpc = "idle"
    /\ isLoading = FALSE
    /\ workerStatus = "IDLE"
    /\ logs = <<>>
    /\ activeClip = <<>>
    /\ timer = "unset"
    /\ workerState = "none"
    /\ toWorker = <<>>
    /\ toMain = <<>>
    /\ crashPending = FALSE
    /\ wpc = "loading"
    /\ req = <<>>
    /\ frame = 0
    /\ loc = <<>>
    /\ resultData = <<>>
    /\ vSrc = <<>>
    /\ vTgt = <<>>
    /\ temps = [_v1 |-> <<0, 0, 0>>, _v2 |-> <<0, 0, 0>>, _v3 |-> <<0, 0, 0>>]
    /\ ik = <<>>
    /\ posted = <<>>

(***************************************************************************)
(* Specification of the matcher: any two skeletons whose bone names are    *)
(* drawn from BoneNamePool, then one call of matchBones.                   *)
(***************************************************************************)
IdleMatch ==
    /\ targetBones = <<>>
    /\ sourceBones = <<>>
    /\ matchDone = FALSE
    /\ mapping = <<>>
    /\ commits = <<>>

InitMatch0 ==
    /\ targetBones \in SeqsUpTo(BoneNamePool, MaxBones)
    /\ sourceBones \in SeqsUpTo(BoneNamePool, MaxBones)
    /\ matchDone = FALSE
    /\ mapping = <<>>
    /\ commits = <<>>

MatchBones ==
    /\ ~matchDone
    /\ LET r == matchBones(targetBones, sourceBones)
       IN  /\ mapping' = r.mapping
           /\ commits' = r.commits
    /\ matchDone' = TRUE
    /\ UNCHANGED <<targetBones, sourceBones>>

NextMatch == MatchBones /\ UNCHANGED <<weightVars, retargetVars, ikVars, rigVars, historyVars>>

InitMatch == InitMatch0 /\ IdleWeights /\ IdleRetarget /\ IdleIK /\ IdleRig /\ IdleHistory

SpecMatch == InitMatch /\ [][NextMatch]_vars

\* C1: the map matchBones returns is an injective partial function from
\* target bone names to source bone names: no source name is the value of two
\* different target names, every key is a target bone name and every value a
\* source bone name (a Record holds one value per key by construction).
C1_MappingInjective ==
    matchDone =>
        /\ \A t1, t2 \in DOMAIN mapping : mapping[t1] = mapping[t2] => t1 = t2
        /\ DOMAIN mapping \subseteq Range(targetBones)
        /\ \A t \in DOMAIN mapping : mapping[t] \in Range(sourceBones)

\* C1 witness: an ambiguous pair of skeletons: two assignments were made and
\* a pair that scored above the floor was refused because one of its sides
\* was already taken.
C1_Witness ==
    /\ matchDone
    /\ Cardinality(DOMAIN mapping) >= 2
    /\ \E i \in 1..Len(targetBones), j \in 1..Len(sourceBones) :
          /\ scoreBoneMatch(targetBones[i], sourceBones[j]) >= MinScore
          /\ mapping[targetBones[i]] # sourceBones[j]
          /\ \E t \in DOMAIN mapping : mapping[t] = sourceBones[j]


(***************************************************************************)
(* autoRig.ts: the skin weight solver.                                     *)
(*                                                                         *)
(* Geometry lives on one axis with integer coordinates, so that            *)
(* distanceToSegment is exact.  A raw weight is an IEEE double, kept as    *)
(*   [k |-> "num", n]  the value n * 1e-8 (n = 0 is the double 0),         *)
(*   [k |-> "tiny"]    a positive double below 2^-1024, whose reciprocal   *)
(*                     overflows: exp(-27^2)/53 = 4.7e-319 is one,         *)
(*   [k |-> "nan"]     NaN.                                                *)
(* A normalised weight is [k |-> "frac", n, d] (the value n/d), "inf" or   *)
(* "nan".                                                                  *)
(***************************************************************************)
Num(n) == [k |-> "num", n |-> n, d |-> 1]
Tiny == [k |-> "tiny", n |-> 0, d |-> 1]
NaN == [k |-> "nan", n |-> 0, d |-> 1]
Inf == [k |-> "inf", n |-> 0, d |-> 1]
Frac(n, d) == [k |-> "frac", n |-> n, d |-> d]

Abs(x) == IF x < 0 THEN -x ELSE x

\* distanceToSegment for a point and a segment on the x axis.
distanceToSegment(point, segStart, segEnd) ==
    LET ab == segEnd - segStart
        ap == point - segStart
        abLenSq == ab * ab
    IN  IF abLenSq = 0 THEN Abs(ap)                     \* abLenSq < 0.0001
        ELSE IF ap * ab < 0 THEN Abs(point - segStart)  \* t clamped to 0
        ELSE IF ap * ab > abLenSq THEN Abs(point - segEnd)  \* t clamped to 1
        ELSE 0                                          \* closest = point

\* dist / seg.radius (line 760): a double, NaN for 0/0, +Infinity for x/0.
NormalizedDist(dist, radius) ==
    IF radius = 0 THEN (IF dist = 0 THEN NaN ELSE Inf)
    ELSE Num(dist \div radius)

\* Lines 761-765 at the normalised distances the model reaches, in 1e-8:
\*   exp(-0) = 1;  exp(-1) = 0.36787944;  exp(-4)/3 = 0.00610521;
\*   exp(-9)/5 = 0.00002468;  exp(-729)/53 = 4.7e-319 (subnormal);
\*   exp(-x^2) = 0 for x >= 28 (underflow), exp(-Infinity) = 0.
ExpFalloff(nd) ==
    CASE nd.k = "nan" -> NaN
      [] nd.k = "inf" -> Num(0)
      [] nd.k = "num" /\ nd.n = 0 -> Num(100000000)
      [] nd.k = "num" /\ nd.n = 1 -> Num(36787944)
      [] nd.k = "num" /\ nd.n = 2 -> Num(610521)
      [] nd.k = "num" /\ nd.n = 3 -> Num(2468)
      [] nd.k = "num" /\ nd.n = 27 -> Tiny
      [] nd.k = "num" /\ nd.n >= 28 -> Num(0)

\* Step 1 (lines 757-773): one {index, weight} per segment, in order, as
\* long as the shared buffer has a slot.
RECURSIVE SegmentWeights(_, _, _)
SegmentWeights(v, segs, acc) ==
    IF segs = <<>> THEN acc
    ELSE LET seg == Head(segs)
             dist == distanceToSegment(v, seg.start, seg.end)
             w == ExpFalloff(NormalizedDist(dist, seg.radius))
         IN  IF Len(acc) < TempSlots
             THEN SegmentWeights(v, Tail(segs), Append(acc, [index |-> seg.boneIndex, weight |-> w]))
             ELSE SegmentWeights(v, Tail(segs), acc)

\* The order of two doubles that are not NaN.
WeightKey(w) == IF w.k = "tiny" THEN 1 ELSE IF w.n = 0 THEN 0 ELSE w.n + 1

\* usedWeights.sort((a, b) => b.weight - a.weight), stable.
RECURSIVE InsertByWeight(_, _)
InsertByWeight(sorted, e) ==
    IF sorted = <<>> THEN <<e>>
    ELSE IF WeightKey(Head(sorted).weight) >= WeightKey(e.weight)
         THEN <<Head(sorted)>> \o InsertByWeight(Tail(sorted), e)
         ELSE <<e>> \o sorted

RECURSIVE SortByWeight(_, _)
SortByWeight(ws, acc) ==
    IF ws = <<>> THEN acc
    ELSE SortByWeight(Tail(ws), InsertByWeight(acc, Head(ws)))

IndexOrders(n) == {f \in [1..n -> 1..n] : \A i, j \in 1..n : f[i] = f[j] => i = j}

\* The orders sort may leave: the stable descending order, or, when a weight
\* is NaN (the comparator then returns NaN), any order at all.
SortOutcomes(ws) ==
    IF \E i \in DOMAIN ws : ws[i].weight.k = "nan"
    THEN {[i \in DOMAIN ws |-> ws[f[i]]] : f \in IndexOrders(Len(ws))}
    ELSE {SortByWeight(ws, <<>>)}

\* a + b on doubles
AddWeight(a, b) ==
    IF a.k = "nan" \/ b.k = "nan" THEN NaN
    ELSE IF a.k = "tiny" /\ b.k = "tiny" THEN Tiny
    ELSE IF a.k = "tiny" THEN (IF b.n = 0 THEN Tiny ELSE b)
    ELSE IF b.k = "tiny" THEN (IF a.n = 0 THEN Tiny ELSE a)
    ELSE Num(a.n + b.n)

\* totalWeight > 0
Positive(w) == w.k = "tiny" \/ (w.k = "num" /\ w.n > 0)

\* outWeights[i] *= invTotal, with invTotal = 1.0 / totalWeight: Infinity
\* when totalWeight is below 2^-1024.
TimesInvTotal(w, total) ==
    IF total.k = "tiny"
    THEN (IF w.k = "tiny" THEN Inf ELSE NaN)    \* x * Infinity, 0 * Infinity
    ELSE IF w.k = "tiny" THEN Frac(0, total.n)
    ELSE Frac(w.n, total.n)

\* Step 3 (lines 782-792): the first four of the sorted weights.
TopIndex(used, i) == IF i <= Len(used) THEN used[i].index ELSE 0
TopWeight(used, i) == IF i <= Len(used) THEN used[i].weight ELSE Num(0)

RECURSIVE TotalOfTop(_, _)
TotalOfTop(used, i) ==
    IF i = 0 THEN Num(0)
    ELSE IF i <= Len(used) THEN AddWeight(TotalOfTop(used, i - 1), used[i].weight)
    ELSE TotalOfTop(used, i - 1)

\* Steps 3 and 4 for one sort outcome: the final outIndices and outWeights.
TopFourNormalized(used) ==
    LET totalWeight == TotalOfTop(used, Influences)
        top == [i \in 1..Influences |-> TopIndex(used, i)]
    IN  IF Positive(totalWeight)
        THEN [indices |-> top,
              weights |-> [i \in 1..Influences |-> TimesInvTotal(TopWeight(used, i), totalWeight)],
              total |-> totalWeight]
        ELSE [indices |-> [top EXCEPT ![1] = 0],
              weights |-> <<Frac(1, 1), Frac(0, 1), Frac(0, 1), Frac(0, 1)>>,
              total |-> totalWeight]

\* calculateWeightsForVertex: the results it may leave in the out arrays.
calculateWeightsForVertex(v, segs) ==
    {TopFourNormalized(used) : used \in SortOutcomes(SegmentWeights(v, segs, <<>>))}

(***************************************************************************)
(* Specification of the weight solver: any list of up to MaxSegs segments  *)
(* of SegmentPool, then calculateWeightsForVertex for one vertex after     *)
(* another, as computeEnvelopeWeights calls it (lines 828-835).            *)
(***************************************************************************)
\* Segments on the axis: a point segment, two segments of length 27, and a
\* segment of radius 0; two of them share bone index 1.
SegmentPool == {
    [boneIndex |-> 0, start |-> 0, end |-> 0, radius |-> 1],
    [boneIndex |-> 1, start |-> -27, end |-> 0, radius |-> 27],
    [boneIndex |-> 1, start |-> 0, end |-> 27, radius |-> 27],
    [boneIndex |-> 2, start |-> 0, end |-> 0, radius |-> 0] }

VertexPool == {0, 27, 54, 81}

InitWeights0 ==
    /\ segments \in SeqsUpTo(SegmentPool, MaxSegs)
    /\ vertex = <<>>
    /\ outIndices = <<0, 0, 0, 0>>
    /\ outWeights = <<Frac(0, 1), Frac(0, 1), Frac(0, 1), Frac(0, 1)>>

CalculateWeights ==
    \E v \in VertexPool :
        \E r \in calculateWeightsForVertex(v, segments) :
            /\ vertex' = <<v>>
            /\ outIndices' = r.indices
            /\ outWeights' = r.weights
            /\ UNCHANGED segments

NextWeights == CalculateWeights /\ UNCHANGED <<matchVars, retargetVars, ikVars, rigVars, historyVars>>

InitWeights == InitWeights0 /\ IdleMatch /\ IdleRetarget /\ IdleIK /\ IdleRig /\ IdleHistory

SpecWeights == InitWeights /\ [][NextWeights]_vars

\* The raw weight every segment gives the vertex of the last call.
RawWeights == SegmentWeights(vertex[1], segments, <<>>)

RECURSIVE SumOfNumerators(_, _)
SumOfNumerators(ws, i) == IF i = 0 THEN 0 ELSE ws[i].n + SumOfNumerators(ws, i - 1)

\* C2: after every call the solver has emitted exactly 4 (boneIndex, weight)
\* pairs whose weights are non-negative numbers that sum to 1, and a vertex
\* that receives zero influence from every segment gets weight 1 on bone
\* index 0 and weight 0 in the other three slots.
C2_FourWeightsSumToOne ==
    vertex # <<>> =>
        /\ Len(outIndices) = 4 /\ Len(outWeights) = 4
        /\ \A i \in 1..4 : /\ outWeights[i].k = "frac"
                           /\ outWeights[i].n >= 0
                           /\ outWeights[i].d = outWeights[1].d
        /\ SumOfNumerators(outWeights, 4) = outWeights[1].d
        /\ (\A i \in DOMAIN RawWeights : RawWeights[i].weight = Num(0)) =>
              /\ outIndices[1] = 0
              /\ outWeights = <<Frac(1, 1), Frac(0, 1), Frac(0, 1), Frac(0, 1)>>


(***************************************************************************)
(* The retarget worker (src/unnamed/part_013, lines 1-490) and its caller  *)
(* runRetarget (src/unnamed/part_007).                                     *)
(*                                                                         *)
(* Numbers.  A double is an integer, or NaNv for NaN.  Lengths are in      *)
(* units of 0.1 (so 1.7 is 17), times in ticks.  Arithmetic is exact; the  *)
(* inputs are drawn so that every quotient the code forms is an integer,   *)
(* and an operator that would need a value outside this domain is left     *)
(* undefined (CHOOSE over the empty set), which stops the model checker.   *)
(***************************************************************************)
NaNv == -(2^30)

\* F applied to the value of x, which is computed once: a const or let of
\* the source that is read at several places
With(x, F(_)) == CHOOSE result \in {F(y) : y \in {x}} : TRUE
isNaN(x) == x = NaNv
Undefined == CHOOSE x \in {} : TRUE

Plus(a, b) == IF isNaN(a) \/ isNaN(b) THEN NaNv ELSE a + b
Minus(a, b) == IF isNaN(a) \/ isNaN(b) THEN NaNv ELSE a - b
Times(a, b) == IF isNaN(a) \/ isNaN(b) THEN NaNv ELSE a * b
\* a / b for the quotients that are integers
Quot(a, b) ==
    IF isNaN(a) \/ isNaN(b) THEN NaNv
    ELSE IF b # 0 /\ a % b = 0 THEN a \div b ELSE Undefined
AbsInt(a) == IF a < 0 THEN -a ELSE a

\* THREE.Vector3 as <<x, y, z>>, THREE.Quaternion as <<x, y, z, w>>
Vec3Zero == <<0, 0, 0>>
Vec3NaN == <<NaNv, NaNv, NaNv>>
QuatIdentity == <<0, 0, 0, 1>>
QuatNaN == <<NaNv, NaNv, NaNv, NaNv>>
HasNaN(s) == \E i \in DOMAIN s : isNaN(s[i])

VecAdd(a, b) == <<Plus(a[1], b[1]), Plus(a[2], b[2]), Plus(a[3], b[3])>>
VecSub(a, b) == <<Minus(a[1], b[1]), Minus(a[2], b[2]), Minus(a[3], b[3])>>
Dot3(a, b) == Plus(Plus(Times(a[1], b[1]), Times(a[2], b[2])), Times(a[3], b[3]))
\* Vector3.distanceToSquared
distanceToSquared(a, b) == Dot3(VecSub(a, b), VecSub(a, b))
\* Vector3.distanceTo, for the distances that are integers
distanceTo(a, b) ==
    LET d2 == distanceToSquared(a, b)
    IN  IF isNaN(d2) THEN NaNv
        ELSE IF \E r \in 0..d2 : r * r = d2
             THEN CHOOSE r \in 0..d2 : r * r = d2
             ELSE Undefined

\* Quaternion.multiplyQuaternions
multiplyQuaternions(a, b) ==
    << Minus(Plus(Plus(Times(a[1], b[4]), Times(a[4], b[1])), Times(a[2], b[3])), Times(a[3], b[2])),
       Minus(Plus(Plus(Times(a[2], b[4]), Times(a[4], b[2])), Times(a[3], b[1])), Times(a[1], b[3])),
       Minus(Plus(Plus(Times(a[3], b[4]), Times(a[4], b[3])), Times(a[1], b[2])), Times(a[2], b[1])),
       Minus(Minus(Minus(Times(a[4], b[4]), Times(a[1], b[1])), Times(a[2], b[2])), Times(a[3], b[3])) >>
\* Quaternion.invert: three.js conjugates, it assumes unit length
invert(q) == <<Times(q[1], -1), Times(q[2], -1), Times(q[3], -1), q[4]>>

\* the rotation part of Matrix4.compose(position, quaternion, scale = 1)
RotationMatrix(q) ==
    LET xx == Times(Times(q[1], q[1]), 2)  yy == Times(Times(q[2], q[2]), 2)
        zz == Times(Times(q[3], q[3]), 2)  xy == Times(Times(q[1], q[2]), 2)
        xz == Times(Times(q[1], q[3]), 2)  yz == Times(Times(q[2], q[3]), 2)
        wx == Times(Times(q[4], q[1]), 2)  wy == Times(Times(q[4], q[2]), 2)
        wz == Times(Times(q[4], q[3]), 2)
    IN  << <<Minus(1, Plus(yy, zz)), Minus(xy, wz), Plus(xz, wy)>>,
           <<Plus(xy, wz), Minus(1, Plus(xx, zz)), Minus(yz, wx)>>,
           <<Minus(xz, wy), Plus(yz, wx), Minus(1, Plus(xx, yy))>> >>
\* the product of a world matrix's rotation part with a local position
RotateVec(q, v) ==
    LET m == RotationMatrix(q)
    IN  <<Dot3(m[1], v), Dot3(m[2], v), Dot3(m[3], v)>>

\* the unit quaternions the model draws rotations from: the identity and
\* the half turns about the axes, with both signs
AxisQuats ==
    {<<0, 0, 0, 1>>, <<0, 0, 0, -1>>, <<1, 0, 0, 0>>, <<-1, 0, 0, 0>>,
     <<0, 1, 0, 0>>, <<0, -1, 0, 0>>, <<0, 0, 1, 0>>, <<0, 0, -1, 0>>}
\* Quaternion.setFromRotationMatrix (through Matrix4.decompose) of the
\* matrix of q: it returns the representative with the positive component
setFromRotationMatrix(q) ==
    IF HasNaN(q) THEN QuatNaN
    ELSE IF q \in AxisQuats
         THEN <<AbsInt(q[1]), AbsInt(q[2]), AbsInt(q[3]), AbsInt(q[4])>>
         ELSE Undefined

(***************************************************************************)
(* VirtualSkeleton (part_013:67-110).  A BoneDef is                         *)
(* [name, parent, position, quaternion]; parent "" stands for null (both    *)
(* are falsy at line 87).  The scale of a bone is (1,1,1) from resetPose    *)
(* on, so it is not carried.  World transforms are computed on demand from  *)
(* the local ones, which is what getWorldPosition / getWorldQuaternion do   *)
(* after their updateWorldMatrix(true, false).                              *)
(***************************************************************************)
DefNames(boneDefs) == {boneDefs[i].name : i \in DOMAIN boneDefs}
DefOf(boneDefs, n) == boneDefs[CHOOSE i \in DOMAIN boneDefs : boneDefs[i].name = n]

\* the constructor followed by resetPose()
VirtualSkeleton(boneDefs) ==
    [n \in DefNames(boneDefs) |->
        LET def == DefOf(boneDefs, n)
        IN  [parent     |-> IF def.parent # "" /\ def.parent \in DefNames(boneDefs)
                            THEN def.parent ELSE "",
             position   |-> def.position,
             quaternion |-> def.quaternion,
             restPos    |-> def.position,
             restRot    |-> def.quaternion]]

\* VirtualSkeleton.getBone(name) !== undefined
HasBone(skel, n) == n \in DOMAIN skel

\* the rotation part of bone.matrixWorld, as a quaternion product
RECURSIVE WorldRotation(_, _)
WorldRotation(skel, n) ==
    IF skel[n].parent = "" THEN skel[n].quaternion
    ELSE multiplyQuaternions(WorldRotation(skel, skel[n].parent), skel[n].quaternion)

\* Object3D.getWorldQuaternion
getWorldQuaternion(skel, n) == setFromRotationMatrix(WorldRotation(skel, n))

\* Object3D.getWorldPosition
RECURSIVE getWorldPosition(_, _)
getWorldPosition(skel, n) ==
    IF skel[n].parent = "" THEN skel[n].position
    ELSE VecAdd(getWorldPosition(skel, skel[n].parent),
                RotateVec(WorldRotation(skel, skel[n].parent), skel[n].position))

\* the first name of a list that is a bone of the skeleton: a || b || ...
FirstBoneOf(skel, names) ==
    LET hits == {i \in DOMAIN names : HasBone(skel, names[i])}
    IN  IF hits = {} THEN <<>>
        ELSE <<names[CHOOSE i \in hits : \A j \in hits : i <= j]>>

\* part_013:179-195, the largest distance between two bones
MaxPairDist(skel) ==
    LET ds == {distanceTo(getWorldPosition(skel, a), getWorldPosition(skel, b)) :
                  a \in DOMAIN skel, b \in DOMAIN skel} \ {NaNv}
    IN  IF ds = {} THEN 0 ELSE CHOOSE d \in ds : \A e \in ds : e <= d

\* part_013:195, the height 1.7 used when the bones coincide
FallbackHeight == 17

\* getSkeletonHeight; "dist > 0.01" is dist >= 1 on integer lengths
getSkeletonHeight(skel) ==
    LET hipsBone == FirstBoneOf(skel, <<"Hips", "mixamorigHips", "Root", "Pelvis">>)
        headBone == FirstBoneOf(skel, <<"Head_End", "Head", "mixamorigHead",
                                        "mixamorigHead_End", "Neck", "mixamorigNeck">>)
        dist == IF hipsBone # <<>> /\ headBone # <<>>
                THEN distanceTo(getWorldPosition(skel, hipsBone[1]),
                                getWorldPosition(skel, headBone[1]))
                ELSE NaNv
        maxDist == MaxPairDist(skel)
    IN  IF ~isNaN(dist) /\ dist >= 1 THEN dist
        ELSE IF maxDist >= 1 THEN maxDist ELSE FallbackHeight

\* part_013:296, the accepted range of globalScale is 0.0001 .. 10000
ScaleRange == 10000

\* part_013:280-299.  globalScale is the ratio num / den
computeGlobalScale(srcH, tgtH) ==
    LET g == IF srcH >= 1 /\ tgtH >= 1 THEN [num |-> tgtH, den |-> srcH]
             ELSE [num |-> 1, den |-> 1]
    IN  IF g.num * ScaleRange < g.den \/ g.num > ScaleRange * g.den
        THEN [num |-> 1, den |-> 1] ELSE g

\* x * globalScale
multiplyScalar(x, g) == Quot(Times(x, g.num), g.den)

\* findRootBoneName: names.find(n => /Hips|Root|Pelvis/i.test(n)), <<>> for
\* undefined
IsRootName(n) ==
    \/ Includes(toLowerCase(n), "hips")
    \/ Includes(toLowerCase(n), "root")
    \/ Includes(toLowerCase(n), "pelvis")
findRootBoneName(names) ==
    LET hits == {i \in DOMAIN names : IsRootName(names[i])}
    IN  IF hits = {} THEN <<>>
        ELSE <<names[CHOOSE i \in hits : \A j \in hits : i <= j]>>

(***************************************************************************)
(* Source tracks.  A TrackDef is [name, times, values]; values holds one    *)
(* tuple per key frame (the flat array of the source, read three or four    *)
(* numbers at a time).  A read past the end of an array yields undefined,   *)
(* which the arithmetic that follows turns into NaN.                        *)
(***************************************************************************)
\* String.prototype.endsWith
endsWith(s, suffix) ==
    Len(s) >= Len(suffix) /\ SubSeq(s, Len(s) - Len(suffix) + 1, Len(s)) = suffix

\* String.prototype.replace(sub, ''), which removes the first occurrence
replaceFirst(s, sub) ==
    IF Includes(s, sub)
    THEN LET i == CHOOSE k \in 1..(Len(s) - Len(sub) + 1) :
                      /\ SubSeq(s, k, k + Len(sub) - 1) = sub
                      /\ \A j \in 1..(k - 1) : SubSeq(s, j, j + Len(sub) - 1) # sub
         IN  SubSeq(s, 1, i - 1) \o SubSeq(s, i + Len(sub), Len(s))
    ELSE s

\* part_013:271-272
TrackIsPos(t) == endsWith(t.name, ".position")
TrackBone(t) == replaceFirst(t.name, IF TrackIsPos(t) THEN ".position" ELSE ".quaternion")

\* part_013:269-275.  sourceBoneTracks as the list of its entries
\* [bone, pos, quat] in insertion order (the order of Object.keys); pos and
\* quat are <<>> when absent and <<track>> otherwise
\* part_013:271-274, the entry of one track
GroupTrack(acc, t, b) ==
    With(IF \E k \in DOMAIN acc : acc[k].bone = b THEN acc
         ELSE Append(acc, [bone |-> b, pos |-> <<>>, quat |-> <<>>]), LAMBDA acc1 :
    With(CHOOSE j \in DOMAIN acc1 : acc1[j].bone = b, LAMBDA k :
        IF TrackIsPos(t) THEN [acc1 EXCEPT ![k].pos = <<t>>]
        ELSE [acc1 EXCEPT ![k].quat = <<t>>]))

RECURSIVE GroupTracks(_, _, _)
GroupTracks(sourceTracks, i, acc) ==
    IF i > Len(sourceTracks) THEN acc
    ELSE With(GroupTrack(acc, sourceTracks[i], TrackBone(sourceTracks[i])), LAMBDA acc1 :
           GroupTracks(sourceTracks, i + 1, acc1))
sourceBoneTracksOf(sourceTracks) == GroupTracks(sourceTracks, 1, <<>>)

\* Object.keys(sourceBoneTracks)
TrackBones(sbt) == [k \in DOMAIN sbt |-> sbt[k].bone]
\* sourceBoneTracks[name] !== undefined
HasTracks(sbt, name) == \E k \in DOMAIN sbt : sbt[k].bone = name
TracksOf(sbt, name) == sbt[CHOOSE k \in DOMAIN sbt : sbt[k].bone = name]

\* part_013:216-217, the index of the key frame pair around t (1-based)
RECURSIVE KeyIndex(_, _, _)
KeyIndex(times, t, idx) ==
    IF idx < Len(times) /\ times[idx + 1] < t THEN KeyIndex(times, t, idx + 1) ELSE idx

\* part_013:219-221, alpha as the ratio n / d
Alpha(times, t, idx) ==
    IF idx + 1 \in DOMAIN times /\ times[idx + 1] # times[idx]
    THEN [n |-> t - times[idx], d |-> times[idx + 1] - times[idx]]
    ELSE [n |-> 0, d |-> 1]

\* values[i .. i+2] or values[i .. i+3], undefined past the end
ValueAt(values, k, width) ==
    IF k \in DOMAIN values THEN values[k]
    ELSE IF width = 3 THEN Vec3NaN ELSE QuatNaN

\* part_013:227, a + (b - a) * alpha
Lerp(a, b, alpha) == Plus(a, Quot(Times(Minus(b, a), alpha.n), alpha.d))

\* Quaternion.slerp on the operands the model can represent exactly: the
\* end points, NaN operands, and equal or opposite quaternions
slerp(qa, qb, alpha) ==
    IF alpha.n = 0 THEN qa
    ELSE IF alpha.n = alpha.d THEN qb
    ELSE IF HasNaN(qa) \/ HasNaN(qb) THEN QuatNaN
    ELSE IF qb = qa \/ qb = <<-qa[1], -qa[2], -qa[3], -qa[4]>> THEN qa
    ELSE Undefined

\* sampleTrack(track, t, undefined, outVec): the value written to outVec
sampleVec(track, t) ==
    LET idx == KeyIndex(track.times, t, 1)
        alpha == Alpha(track.times, t, idx)
        a == ValueAt(track.values, idx, 3)
        b == ValueAt(track.values, idx + 1, 3)
    IN  <<Lerp(a[1], b[1], alpha), Lerp(a[2], b[2], alpha), Lerp(a[3], b[3], alpha)>>

\* sampleTrack(track, t, outQuat): the value written to outQuat
sampleQuat(track, t) ==
    LET idx == KeyIndex(track.times, t, 1)
        alpha == Alpha(track.times, t, idx)
    IN  slerp(ValueAt(track.values, idx, 4), ValueAt(track.values, idx + 1, 4), alpha)

(***************************************************************************)
(* The two-bone IK solver (CCD).  The worker keeps module-level scratch     *)
(* vectors; temps is the record of their values and a vector argument of    *)
(* the solver is the NAME of the scratch vector passed, because the source  *)
(* passes the object, not a copy.                                           *)
(***************************************************************************)
\* part_013:121 and retarget.worker.ts:111, the iteration bounds
MaxIterCurrent == 15
MaxIterLegacy == 10

Sign(x) == IF x > 0 THEN 1 ELSE IF x < 0 THEN -1 ELSE 0

\* Vector3.normalize: divideScalar(length() || 1).  Exact on the zero vector,
\* on vectors along one axis, and on vectors with a NaN length
normalizeVec(v) ==
    IF HasNaN(v) \/ v = Vec3Zero THEN v
    ELSE IF Cardinality({i \in 1..3 : v[i] # 0}) = 1
         THEN <<Sign(v[1]), Sign(v[2]), Sign(v[3])>>
         ELSE Undefined

\* Quaternion.setFromUnitVectors(vFrom, vTo) followed by its normalize()
setFromUnitVectors(vFrom, vTo) ==
    LET r == Plus(Dot3(vFrom, vTo), 1)
    IN  IF isNaN(r) THEN QuatNaN
        ELSE IF r = 0
             THEN IF AbsInt(vFrom[1]) > AbsInt(vFrom[3])
                  THEN <<-vFrom[2], vFrom[1], 0, 0>>
                  ELSE <<0, -vFrom[3], vFrom[2], 0>>
        ELSE IF r = 2 \/ vFrom = Vec3Zero \/ vTo = Vec3Zero THEN QuatIdentity
        ELSE Undefined

\* part_013:138, if (rotation.w < 0.9) rotation.slerp(identity, 0.5): a half
\* turn would become a quarter turn, which the model cannot represent
Dampen(rotation) ==
    IF HasNaN(rotation) \/ rotation[4] = 1 THEN rotation ELSE Undefined

\* part_013:140-151 and retarget.worker.ts:138-153: turn the bone by the
\* world rotation and store the result as its local quaternion
ApplyRotation(skel, bone, rotation) ==
    LET parentRot == IF skel[bone].parent # ""
                     THEN getWorldQuaternion(skel, skel[bone].parent)
                     ELSE QuatIdentity
        boneWorldRot == getWorldQuaternion(skel, bone)
        newWorldRot == multiplyQuaternions(rotation, boneWorldRot)
        newLocalRot == multiplyQuaternions(invert(parentRot), newWorldRot)
    IN  [skel EXCEPT ![bone].quaternion = newLocalRot]

\* "distanceTo(...) < tolerance": on integer lengths a distance below the
\* tolerance (0.0001, 0.001) is zero; a NaN distance is not below anything
WithinTolerance(a, b) ==
    LET d2 == distanceToSquared(a, b) IN ~isNaN(d2) /\ d2 = 0

\* part_013:128-152, the step of one bone.  targetPos names the scratch
\* vector holding the target; line 132 overwrites _v1 before line 133
\* reads the target
CcdStep(st, bone, effector, targetPos) ==
    With(getWorldPosition(st.skel, bone), LAMBDA v2 :
    With(normalizeVec(VecSub(getWorldPosition(st.skel, effector), v2)), LAMBDA toEffector :
    With([st.temps EXCEPT !._v2 = v2, !._v1 = toEffector], LAMBDA t1 :
    With(normalizeVec(VecSub(t1[targetPos], v2)), LAMBDA toTarget :
      [st EXCEPT !.skel = ApplyRotation(st.skel, bone,
                              Dampen(setFromUnitVectors(toEffector, toTarget))),
                 !.temps = [t1 EXCEPT !._v3 = toTarget]]))))

\* part_013:125-152, one pass of the loop.  st = [skel, temps, iters, dists,
\* stop]; iters counts the passes that turned the bones, dists records the
\* squared distance from the effector to the goal at every test of line
\* 126, stop tells that the test left the loop
solveTwoBoneIKPass(st, root, middle, effector, targetPos, goal) ==
    With(getWorldPosition(st.skel, effector), LAMBDA eff :
    With([st EXCEPT !.temps._v1 = eff,
                    !.dists = Append(@, distanceToSquared(eff, goal))], LAMBDA s1 :
      IF WithinTolerance(s1.temps._v1, s1.temps[targetPos]) THEN [s1 EXCEPT !.stop = TRUE]
      ELSE With(CcdStep(s1, middle, effector, targetPos), LAMBDA s2 :
             [CcdStep(s2, root, effector, targetPos) EXCEPT !.iters = @ + 1])))

\* part_013:124, the loop: n passes from st on, or fewer when line 126
\* leaves the loop.  The passes are composed by halves, which keeps the
\* evaluation shallow
RECURSIVE solveTwoBoneIKLoop(_, _, _, _, _, _, _)
solveTwoBoneIKLoop(st, root, middle, effector, targetPos, goal, n) ==
    IF n = 0 \/ st.stop THEN st
    ELSE IF n = 1 THEN solveTwoBoneIKPass(st, root, middle, effector, targetPos, goal)
    ELSE With(solveTwoBoneIKLoop(st, root, middle, effector, targetPos, goal, n \div 2),
              LAMBDA s1 : solveTwoBoneIKLoop(s1, root, middle, effector, targetPos, goal,
                                             n - n \div 2))

\* part_013:114-154
solveTwoBoneIK(skel, scratch, root, middle, effector, targetPos) ==
    solveTwoBoneIKLoop([skel |-> skel, temps |-> scratch, iters |-> 0, dists |-> <<>>,
                        stop |-> FALSE],
                       root, middle, effector, targetPos, scratch[targetPos],
                       MaxIterCurrent)

(***************************************************************************)
(* The message handler of the worker, part_013:254-490.  A Record with      *)
(* string keys is the list of its [key, value] entries in insertion order,  *)
(* the order Object.keys yields.                                            *)
(***************************************************************************)
\* Object.keys(mapping)
MapKeys(m) == [k \in DOMAIN m |-> m[k].key]
\* key in mapping
MapHas(m, key) == \E k \in DOMAIN m : m[k].key = key
\* mapping[key]; "" stands for undefined as well (both are falsy)
MapGet(m, key) ==
    IF MapHas(m, key) THEN m[CHOOSE k \in DOMAIN m : m[k].key = key].value ELSE ""

\* part_013:358-362, a rest rotation or the identity
RestOf(restRotations, name) ==
    IF name \in DOMAIN restRotations THEN restRotations[name] ELSE QuatIdentity

\* part_013:311-317
srcStartPosOf(sbt, srcRootName) ==
    IF srcRootName # <<>> /\ TracksOf(sbt, srcRootName[1]).pos # <<>>
    THEN LET v == TracksOf(sbt, srcRootName[1]).pos[1].values
         IN  IF Len(v) >= 1 THEN v[1] ELSE Vec3Zero
    ELSE Vec3Zero

\* part_013:319-322
tgtRestPosOf(skel, tgtRootName) ==
    IF tgtRootName # <<>> /\ HasBone(skel, tgtRootName[1])
    THEN skel[tgtRootName[1]].restPos ELSE Vec3Zero

\* part_013:265-339, the values fixed before the frame loop
Setup(r, src, tgt) ==
    With(sourceBoneTracksOf(r.sourceTracks), LAMBDA sbt :
    With(findRootBoneName(TrackBones(sbt)), LAMBDA srcRoot :
    With(findRootBoneName(MapKeys(r.mapping)), LAMBDA tgtRoot :
        [numFrames   |-> r.duration \div r.timeStep,
         sbt         |-> sbt,
         globalScale |-> computeGlobalScale(getSkeletonHeight(src), getSkeletonHeight(tgt)),
         srcRootName |-> srcRoot,
         tgtRootName |-> tgtRoot,
         srcStartPos |-> srcStartPosOf(sbt, srcRoot),
         tgtRestPos  |-> tgtRestPosOf(tgt, tgtRoot)])))

\* part_013:173-174, the scratch vectors getSkeletonHeight leaves behind
TempsAfterHeight(scratch, skel) ==
    LET hipsBone == FirstBoneOf(skel, <<"Hips", "mixamorigHips", "Root", "Pelvis">>)
        headBone == FirstBoneOf(skel, <<"Head_End", "Head", "mixamorigHead",
                                        "mixamorigHead_End", "Neck", "mixamorigNeck">>)
    IN  IF hipsBone # <<>> /\ headBone # <<>>
        THEN [scratch EXCEPT !._v1 = getWorldPosition(skel, hipsBone[1]),
                             !._v2 = getWorldPosition(skel, headBone[1])]
        ELSE scratch

\* part_013:330-332
EmptyResults(m) ==
    [b \in Range(MapKeys(m)) |-> [times |-> <<>>, rotValues |-> <<>>, posValues |-> <<>>]]

\* the product without the inverse of the source rest rotation
outRotOfNoInverse(tgtRestQ, srcRestQ, srcRot) ==
    LET q == multiplyQuaternions(multiplyQuaternions(tgtRestQ, srcRestQ), srcRot)
    IN  IF HasNaN(q) THEN QuatIdentity ELSE q

\* part_013:364-370, tgtRest x srcRest^-1 x srcAnim, NaN replaced by identity
outRotOf(tgtRestQ, srcRestQ, srcRot) ==
    LET q == multiplyQuaternions(multiplyQuaternions(tgtRestQ, invert(srcRestQ)), srcRot)
    IN  IF HasNaN(q) THEN QuatIdentity ELSE q

\* part_013:376-384, one component of the root position
outPosComponent(rest, src, start, globalScale) ==
    LET f == Plus(rest, multiplyScalar(Minus(src, start), globalScale))
    IN  IF isNaN(f) THEN rest ELSE f

\* the body of the V1 loop with a position sample for every bone whose
\* source bone has a position track
V1BoneAnyPosition(r, lc, res, targetBone, t) ==
    LET sourceBone == MapGet(r.mapping, targetBone)
    IN  IF sourceBone = "" \/ ~HasTracks(lc.sbt, sourceBone) THEN res
        ELSE LET srcTrk == TracksOf(lc.sbt, sourceBone)
                 srcRot == IF srcTrk.quat # <<>> THEN sampleQuat(srcTrk.quat[1], t)
                           ELSE QuatIdentity
                 outRot == outRotOf(RestOf(r.targetRestRotations, targetBone),
                                    RestOf(r.sourceRestRotations, sourceBone), srcRot)
                 hasPos == srcTrk.pos # <<>>
                 srcPos == IF hasPos THEN sampleVec(srcTrk.pos[1], t) ELSE Vec3Zero
                 out(i) == outPosComponent(lc.tgtRestPos[i], srcPos[i],
                                           lc.srcStartPos[i], lc.globalScale)
                 outPos == <<out(1), out(2), out(3)>>
             IN  [res EXCEPT
                    ![targetBone].times = Append(@, t),
                    ![targetBone].rotValues = Append(@, outRot),
                    ![targetBone].posValues =
                        IF hasPos
                        THEN Append(@, outPos) ELSE @]

\* part_013:347-385, the body of the V1 loop for one target bone
V1Bone(r, lc, res, targetBone, t) ==
    LET sourceBone == MapGet(r.mapping, targetBone)
    IN  IF sourceBone = "" \/ ~HasTracks(lc.sbt, sourceBone) THEN res
        ELSE LET srcTrk == TracksOf(lc.sbt, sourceBone)
                 srcRot == IF srcTrk.quat # <<>> THEN sampleQuat(srcTrk.quat[1], t)
                           ELSE QuatIdentity
                 outRot == outRotOf(RestOf(r.targetRestRotations, targetBone),
                                    RestOf(r.sourceRestRotations, sourceBone), srcRot)
                 hasPos == srcTrk.pos # <<>>
                 srcPos == IF hasPos THEN sampleVec(srcTrk.pos[1], t) ELSE Vec3Zero
                 out(i) == outPosComponent(lc.tgtRestPos[i], srcPos[i],
                                           lc.srcStartPos[i], lc.globalScale)
                 outPos == <<out(1), out(2), out(3)>>
             IN  [res EXCEPT
                    ![targetBone].times = Append(@, t),
                    ![targetBone].rotValues = Append(@, outRot),
                    ![targetBone].posValues =
                        IF hasPos /\ lc.tgtRootName = <<targetBone>>
                        THEN Append(@, outPos) ELSE @]

\* part_013:346-386, the V1 pass of one frame
RECURSIVE V1Loop(_, _, _, _, _)
V1Loop(r, lc, res, k, t) ==
    IF k > Len(r.mapping) THEN res
    ELSE With(V1Bone(r, lc, res, r.mapping[k].key, t), LAMBDA res1 :
           V1Loop(r, lc, res1, k + 1, t))
V1Pass(r, lc, res, i) == V1Loop(r, lc, res, 1, i * r.timeStep)

\* part_013:392-397, the source bone of one entry of sourceBoneTracks; w is
\* [skel, temps]
PoseSourceBone(w, e, t) ==
    IF ~HasBone(w.skel, e.bone) THEN w
    ELSE With(IF e.quat # <<>>
              THEN [w.skel EXCEPT ![e.bone].quaternion = sampleQuat(e.quat[1], t)]
              ELSE w.skel, LAMBDA s1 :
           IF e.pos = <<>> THEN [w EXCEPT !.skel = s1]
           ELSE With(sampleVec(e.pos[1], t), LAMBDA v :
                  [skel  |-> IF ~isNaN(v[1]) THEN [s1 EXCEPT ![e.bone].position = v] ELSE s1,
                   temps |-> [w.temps EXCEPT !._v1 = v]]))

\* part_013:391-398, pose the source VirtualSkeleton to the frame
RECURSIVE PoseSource(_, _, _, _)
PoseSource(w, sbt, k, t) ==
    IF k > Len(sbt) THEN w
    ELSE With(PoseSourceBone(w, sbt[k], t), LAMBDA w1 : PoseSource(w1, sbt, k + 1, t))

\* part_013:403-417, the target bone of one mapping key
PoseTargetBone(skel, res, b) ==
    IF ~HasBone(skel, b) THEN skel
    ELSE With(res[b].rotValues, LAMBDA rot :
         With(res[b].posValues, LAMBDA pos :
         With(IF Len(rot) >= 1 THEN [skel EXCEPT ![b].quaternion = rot[Len(rot)]]
              ELSE skel, LAMBDA s1 :
           IF Len(pos) >= 1 /\ ~isNaN(pos[Len(pos)][1])
           THEN [s1 EXCEPT ![b].position = pos[Len(pos)]] ELSE s1)))

\* part_013:402-418, pose the target VirtualSkeleton to the V1 results
RECURSIVE PoseTarget(_, _, _, _)
PoseTarget(skel, m, res, k) ==
    IF k > Len(m) THEN skel
    ELSE With(PoseTargetBone(skel, res, m[k].key), LAMBDA s1 : PoseTarget(s1, m, res, k + 1))

\* writeBack as a push of the rotation
writeBackPush(res, bName, q) ==
    [res EXCEPT ![bName].rotValues = Append(@, q)]

\* part_013:449-454, writeBack(bName, q).  An empty rotValues
\* array only gains properties named "-4".."-1", so its elements do not change
writeBack(res, bName, q) ==
    IF Len(res[bName].rotValues) >= 1
    THEN [res EXCEPT ![bName].rotValues[Len(res[bName].rotValues)] = q]
    ELSE res

\* part_013:438-439, the goal: the source effector relative to the source
\* root, scaled, relative to the target root
GoalOf(effWorld, srcRootWorld, tgtRootWorld, globalScale) ==
    LET d == VecSub(effWorld, srcRootWorld)
    IN  VecAdd(<<multiplyScalar(d[1], globalScale), multiplyScalar(d[2], globalScale),
                 multiplyScalar(d[3], globalScale)>>, tgtRootWorld)

\* part_013:446-457, the solver call of one chain c and the write back of
\* its result.  v = [ok, res, vSrc, vTgt, temps, ik]; ok turns FALSE when
\* resultData[middle] is undefined and the read of .rotValues throws a
\* TypeError.  ik lists, per solver call, the chain, the goal requested, the
\* effector before and after, and the passes of the loop body
SolveAndWrite(v, r, c, goal, before, s) ==
    With(writeBack(v.res, c.root, s.skel[c.root].quaternion), LAMBDA res1 :
    With([v EXCEPT !.vTgt = s.skel, !.temps = s.temps, !.res = res1,
                   !.ik = Append(@, [chain |-> c.name, goal |-> goal, before |-> before,
                                     after |-> getWorldPosition(s.skel, c.effector),
                                     iters |-> s.iters])], LAMBDA v1 :
        IF ~MapHas(r.mapping, c.middle) THEN [v1 EXCEPT !.ok = FALSE]
        ELSE [v1 EXCEPT !.res = writeBack(res1, c.middle, s.skel[c.middle].quaternion)]))

\* part_013:430-457, the body of the loop for the chain c
SolveChain(v, r, lc, c) ==
    IF MapGet(r.mapping, c.root) = "" \/ MapGet(r.mapping, c.effector) = ""
       \/ ~HasBone(v.vSrc, MapGet(r.mapping, c.effector))
    THEN v
    ELSE With(GoalOf(getWorldPosition(v.vSrc, MapGet(r.mapping, c.effector)),
                     v.temps._v2, v.temps._v3, lc.globalScale), LAMBDA goal :
         With([v.temps EXCEPT !._v1 = goal], LAMBDA t1 :
           IF ~(HasBone(v.vTgt, c.root) /\ HasBone(v.vTgt, c.middle)
                /\ HasBone(v.vTgt, c.effector))
           THEN [v EXCEPT !.temps = t1]
           ELSE With(solveTwoBoneIK(v.vTgt, t1, c.root, c.middle, c.effector, "_v1"),
                  LAMBDA s :
                    SolveAndWrite(v, r, c, goal, getWorldPosition(v.vTgt, c.effector), s))))

\* part_013:429-458, the loop over the chains
RECURSIVE SolveChains(_, _, _, _)
SolveChains(v, r, lc, k) ==
    IF k > Len(r.targetChains) \/ ~v.ok THEN v
    ELSE With(SolveChain(v, r, lc, r.targetChains[k]), LAMBDA v1 :
           SolveChains(v1, r, lc, k + 1))

\* part_013:420-427, the root positions of the frame in _v2 and _v3
V2Posed(r, lc, res, src, tgt) ==
    IF lc.srcRootName # <<>> /\ HasBone(src.skel, lc.srcRootName[1])
       /\ lc.tgtRootName # <<>> /\ HasBone(tgt, lc.tgtRootName[1])
    THEN With([ok |-> TRUE, res |-> res, vSrc |-> src.skel, vTgt |-> tgt, ik |-> <<>>,
               temps |-> [src.temps EXCEPT
                            !._v2 = getWorldPosition(src.skel, lc.srcRootName[1]),
                            !._v3 = getWorldPosition(tgt, lc.tgtRootName[1])]],
              LAMBDA v : SolveChains(v, r, lc, 1))
    ELSE [ok |-> TRUE, res |-> res, vSrc |-> src.skel, vTgt |-> tgt, ik |-> <<>>,
          temps |-> src.temps]

\* part_013:389-460, the V2 pass of one frame
V2Pass(r, lc, res, srcSkel, tgtSkel, scratch, i) ==
    With(PoseSource([skel |-> srcSkel, temps |-> scratch], lc.sbt, 1, i * r.timeStep),
         LAMBDA src :
           With(PoseTarget(tgtSkel, r.mapping, res, 1), LAMBDA tgt :
             V2Posed(r, lc, res, src, tgt)))

\* part_013:464-484, the output tracks
RECURSIVE BuildTracks(_, _, _)
BuildTracks(m, res, k) ==
    IF k > Len(m) THEN <<>>
    ELSE LET d == res[m[k].key]
             rotTrack == [name |-> m[k].key, type |-> "quaternion",
                          times |-> d.times, values |-> d.rotValues]
             posTrack == [name |-> m[k].key, type |-> "vector",
                          times |-> d.times, values |-> d.posValues]
         IN  (IF Len(d.times) = 0 THEN <<>>
              ELSE IF Len(d.posValues) > 0 THEN <<rotTrack, posTrack>>
              ELSE <<rotTrack>>) \o BuildTracks(m, res, k + 1)

(***************************************************************************)
(* The scene runRetarget works on: a source asset (skeleton and clip), a    *)
(* target asset (skeleton), the bone mapping and the retarget settings.     *)
(* Skeletons stand upright along y; lengths are in units of 0.1.            *)
(***************************************************************************)
\* the longest clip, in ticks
MaxDuration == 3

Bone(name, parent, position, quaternion) ==
    [name |-> name, parent |-> parent, position |-> position, quaternion |-> quaternion]
Track(name, times, values) == [name |-> name, times |-> times, values |-> values]

HalfTurnX == <<1, 0, 0, 0>>

\* a leg under the hips and a head above them; upLegRot is the bind
\* rotation of the upper leg, headAt the height of the head over the hips
Humanoid(upLegRot, headAt) ==
    << Bone("Hips", "", <<0, 10, 0>>, QuatIdentity),
       Bone("LeftUpLeg", "Hips", <<0, -2, 0>>, upLegRot),
       Bone("LeftLeg", "LeftUpLeg", <<0, -4, 0>>, QuatIdentity),
       Bone("LeftFoot", "LeftLeg", <<0, -4, 0>>, QuatIdentity),
       Bone("Head", "Hips", <<0, headAt, 0>>, QuatIdentity) >>
\* the same below a "Root" bone at the origin
RootedHumanoid ==
    <<Bone("Root", "", <<0, 0, 0>>, QuatIdentity)>> \o
    [i \in 1..5 |-> IF i = 1 THEN [Humanoid(QuatIdentity, 10)[1] EXCEPT !.parent = "Root"]
                    ELSE Humanoid(QuatIdentity, 10)[i]]
\* a leg alone: no bone that getSkeletonHeight takes for a head
Headless == SubSeq(Humanoid(QuatIdentity, 10), 1, 4)
\* a malformed skeleton: the bind position of the foot is NaN
FootNaN ==
    [i \in 1..5 |-> IF i = 4 THEN [Humanoid(QuatIdentity, 10)[4] EXCEPT !.position = Vec3NaN]
                    ELSE Humanoid(QuatIdentity, 10)[i]]

\* a walk: the hips move, the upper leg and the knee fold in turn
WalkClip ==
    << Track("Hips.position", <<0, 1, 2>>, <<<<0, 10, 0>>, <<0, 12, 0>>, <<2, 10, 0>>>>),
       Track("Hips.quaternion", <<0, 1, 2>>, <<QuatIdentity, QuatIdentity, <<0, 1, 0, 0>>>>),
       Track("LeftUpLeg.quaternion", <<0, 1, 2>>, <<QuatIdentity, HalfTurnX, QuatIdentity>>),
       Track("LeftLeg.quaternion", <<0, 1, 2>>, <<HalfTurnX, QuatIdentity, HalfTurnX>>),
       Track("LeftFoot.quaternion", <<0, 1, 2>>, <<QuatIdentity, QuatIdentity, QuatIdentity>>) >>
\* the walk of a rig whose hips hang under an animated "Root" bone
RootedClip ==
    << Track("Root.position", <<0, 1, 2>>, <<<<0, 0, 0>>, <<2, 0, 0>>, <<4, 0, 0>>>>),
       Track("Root.quaternion", <<0, 1, 2>>, <<QuatIdentity, QuatIdentity, QuatIdentity>>) >>
    \o WalkClip
\* a pose: one position key for the hips, sparse rotation keys, a position
\* track of the upper leg that ends at time 1, no track for the lower leg
PoseClip ==
    << Track("Hips.position", <<0>>, <<<<0, 10, 0>>>>),
       Track("LeftUpLeg.position", <<0, 1>>, <<<<0, -2, 0>>, <<0, -3, 0>>>>),
       Track("Hips.quaternion", <<0, 2>>, <<HalfTurnX, HalfTurnX>>),
       Track("LeftUpLeg.quaternion", <<0, 2>>, <<HalfTurnX, <<-1, 0, 0, 0>>>>) >>

SourceAssetPool ==
    { [def |-> Humanoid(QuatIdentity, 10), tracks |-> WalkClip],
      [def |-> RootedHumanoid, tracks |-> RootedClip],
      [def |-> Humanoid(HalfTurnX, 10), tracks |-> PoseClip] }
TargetAssetPool ==
    { [def |-> Humanoid(QuatIdentity, 10)],
      [def |-> Humanoid(HalfTurnX, 20)],
      [def |-> Headless],
      [def |-> FootNaN] }

\* the bones of the target a mapping may name, in skeleton order
MappableBones == <<"Hips", "LeftUpLeg", "LeftLeg", "LeftFoot">>
\* boneMapping: each bone of keys mapped to the source bone of its name
RECURSIVE MappingOf(_, _)
MappingOf(keys, k) ==
    IF k > Len(MappableBones) THEN <<>>
    ELSE (IF MappableBones[k] \in keys
          THEN <<[key |-> MappableBones[k], value |-> MappableBones[k]]>>
          ELSE <<>>) \o MappingOf(keys, k + 1)
MappingPool == {MappingOf(keys, 1) : keys \in SUBSET Range(MappableBones)}

ScenePool ==
    [sourceAsset : SourceAssetPool, targetAsset : TargetAssetPool,
     boneMapping : MappingPool, mode : {"v1", "v2"},
     timeStep : {1, 2}, duration : 0..MaxDuration]

(***************************************************************************)
(* runRetarget (part_007:135-268) and what it derives from the scene.       *)
(***************************************************************************)
\* a match of /a.*b/i anywhere in the name
MatchesThen(name, a, b) ==
    LET s == toLowerCase(name)
    IN  \E i \in 1..(Len(s) - Len(a) + 1) : \E j \in (i + Len(a))..(Len(s) - Len(b) + 1) :
            /\ SubSeq(s, i, i + Len(a) - 1) = a
            /\ SubSeq(s, j, j + Len(b) - 1) = b

\* part_007:102, bones.find(b => pattern.test(b.name)), <<>> for undefined
FindFoot(def, side, letter) ==
    LET hit(n) == \/ MatchesThen(n, side, "foot") \/ MatchesThen(n, letter, "foot")
                  \/ MatchesThen(n, side, "ankle") \/ MatchesThen(n, letter, "ankle")
        hits == {i \in DOMAIN def : hit(def[i].name)}
    IN  IF hits = {} THEN <<>> ELSE <<def[CHOOSE i \in hits : \A j \in hits : i <= j]>>

\* part_007:104-128, one chain: the foot, its parent and its grandparent,
\* when both are bones
ChainOf(def, chainName, foot) ==
    IF foot # <<>> /\ foot[1].parent # "" /\ DefOf(def, foot[1].parent).parent # ""
    THEN <<[name |-> chainName, effector |-> foot[1].name, middle |-> foot[1].parent,
            root |-> DefOf(def, foot[1].parent).parent]>>
    ELSE <<>>

\* findIKChains, as the list of the entries of the record it returns
findIKChains(def) ==
    ChainOf(def, "leftLeg", FindFoot(def, "left", "l"))
    \o ChainOf(def, "rightLeg", FindFoot(def, "right", "r"))

\* snapshotBindPose(...).restMap, part_007:64-82, for a skeleton whose
\* non-bone parent is not rotated
restMapOf(def) == [n \in DefNames(def) |-> DefOf(def, n).quaternion]

\* part_007:255-267, the message posted to the worker.  timeStep is 1 / fps
Request(sc) ==
    [type                |-> "RETARGET",
     sourceTracks        |-> sc.sourceAsset.tracks,
     mapping             |-> sc.boneMapping,
     sourceRestRotations |-> restMapOf(sc.sourceAsset.def),
     targetRestRotations |-> restMapOf(sc.targetAsset.def),
     mode                |-> sc.mode,
     sourceDef           |-> sc.sourceAsset.def,
     targetDef           |-> sc.targetAsset.def,
     targetChains        |-> findIKChains(sc.targetAsset.def),
     timeStep            |-> sc.timeStep,
     duration            |-> sc.duration]

Log(level, what) == [level |-> level, what |-> what]

\* worker.terminate(): the worker stops and the messages it posted that
\* were not dispatched yet are discarded
Terminate ==
    /\ workerState' = "terminated"
    /\ toWorker' = <<>>
    /\ toMain' = <<>>

\* part_007:136-147, a failed precondition check
RunRetargetRejected ==
    /\ cpc = "idle" /\ ~inputsReady
    /\ logs' = Append(logs, Log("error", "precondition"))
    /\ cpc' = "rejected"
    /\ UNCHANGED <<scene, inputsReady, isLoading, workerStatus, activeClip, timer,
                   workerState, toWorker, toMain, crashPending, workerVars>>

\* part_007:149-267, a run that passes the checks
RunRetarget ==
    /\ cpc = "idle" /\ inputsReady
    /\ isLoading' = TRUE
    /\ workerStatus' = "ACTIVE"
    /\ logs' = Append(logs, Log("info", "start"))
    /\ workerState' = "alive"
    /\ timer' = "armed"
    /\ toWorker' = <<Request(scene)>>
    /\ cpc' = "dispatched"
    /\ UNCHANGED <<scene, inputsReady, activeClip, toMain, crashPending, workerVars>>

\* the timeout callback without its clearLoading() call
TimeoutKeepsLoading ==
    /\ timer = "armed"
    /\ timer' = "fired"
    /\ logs' = Append(logs, Log("error", "timeout"))
    /\ workerStatus' = "ERROR"
    /\ Terminate
    /\ UNCHANGED <<scene, inputsReady, cpc, isLoading, activeClip, crashPending, workerVars>>

\* part_007:183-191, the callback of setTimeout(..., 60000)
Timeout ==
    /\ timer = "armed"
    /\ timer' = "fired"
    /\ logs' = Append(logs, Log("error", "timeout"))
    /\ isLoading' = FALSE
    /\ workerStatus' = "ERROR"
    /\ Terminate
    /\ UNCHANGED <<scene, inputsReady, cpc, activeClip, crashPending, workerVars>>

\* worker.onerror without its clearLoading() call
OnErrorKeepsLoading ==
    /\ crashPending
    /\ crashPending' = FALSE
    /\ timer' = IF timer = "armed" THEN "cleared" ELSE timer
    /\ logs' = Append(logs, Log("error", "worker error"))
    /\ workerStatus' = "ERROR"
    /\ Terminate
    /\ UNCHANGED <<scene, inputsReady, cpc, isLoading, activeClip, workerVars>>

\* part_007:193-202, worker.onerror
OnError ==
    /\ crashPending
    /\ crashPending' = FALSE
    /\ timer' = IF timer = "armed" THEN "cleared" ELSE timer
    /\ logs' = Append(logs, Log("error", "worker error"))
    /\ isLoading' = FALSE
    /\ workerStatus' = "ERROR"
    /\ Terminate
    /\ UNCHANGED <<scene, inputsReady, cpc, activeClip, workerVars>>

\* part_007:222-241, the clip built from the tracks of a SUCCESS message
NewClip(sc, tracks) ==
    [name |-> "RetargetedAnim", duration |-> sc.duration,
     tracks |-> [k \in DOMAIN tracks |->
                   [name |-> tracks[k].name \o (IF tracks[k].type = "vector"
                                                THEN ".position" ELSE ".quaternion"),
                    times |-> tracks[k].times, values |-> tracks[k].values]]]

\* part_007:204-253, worker.onmessage
OnMessage ==
    /\ toMain # <<>>
    /\ LET data == Head(toMain)
       IN  IF data.type = "READY"
           THEN /\ logs' = Append(logs, Log("info", "ready"))
                /\ toMain' = Tail(toMain)
                /\ UNCHANGED <<timer, activeClip, isLoading, workerStatus, workerState,
                               toWorker>>
           ELSE /\ timer' = IF timer = "armed" THEN "cleared" ELSE timer
                /\ IF data.type = "SUCCESS"
                   THEN /\ logs' = logs \o <<Log("success", "retargeted"), Log("info", "applied")>>
                        /\ activeClip' = <<NewClip(scene, data.tracks)>>
                        /\ workerStatus' = "IDLE"
                   ELSE /\ logs' = Append(logs, Log("error", "retarget failed"))
                        /\ workerStatus' = "ERROR"
                        /\ UNCHANGED activeClip
                /\ isLoading' = FALSE
                /\ Terminate
    /\ UNCHANGED <<scene, inputsReady, cpc, crashPending, workerVars>>

(***************************************************************************)
(* The worker, one step per part of the handler: the script start, the      *)
(* setup, the V1 pass and the V2 pass of each frame, the output.  A step    *)
(* is taken only while the Worker object has not been terminated.           *)
(***************************************************************************)
Post(type, msg) ==
    /\ toMain' = Append(toMain, msg)
    /\ posted' = Append(posted, type)

\* part_013:23, the READY message of the script
WorkerBoot ==
    /\ workerState = "alive" /\ wpc = "loading"
    /\ Post("READY", [type |-> "READY"])
    /\ wpc' = "waiting"
    /\ UNCHANGED <<scene, inputsReady, cpc, isLoading, workerStatus, logs, activeClip,
                   timer, workerState, toWorker, crashPending,
                   req, frame, loc, resultData, vSrc, vTgt, temps, ik>>

\* part_013:254-339, the handler up to the frame loop
WorkerReceive ==
    /\ workerState = "alive" /\ wpc = "waiting" /\ toWorker # <<>>
    /\ toWorker' = Tail(toWorker)
    /\ \E data \in {Head(toWorker)} :
           IF data.type # "RETARGET"
           THEN UNCHANGED workerVars
           ELSE \E src \in {VirtualSkeleton(data.sourceDef)} :
                \E tgt \in {VirtualSkeleton(data.targetDef)} :
                \E lc \in {Setup(data, src, tgt)} :
                    /\ req' = <<data>>
                    /\ loc' = <<lc>>
                    /\ vSrc' = src
                    /\ vTgt' = tgt
                    /\ temps' = TempsAfterHeight(TempsAfterHeight(temps, src), tgt)
                    /\ resultData' = EmptyResults(data.mapping)
                    /\ frame' = 0
                    /\ wpc' = IF lc.numFrames > 0 THEN "v1" ELSE "build"
                    /\ UNCHANGED <<ik, posted>>
    /\ UNCHANGED <<scene, inputsReady, cpc, isLoading, workerStatus, logs, activeClip,
                   timer, workerState, toMain, crashPending>>

\* the loop test as i <= numFrames: one frame too many
NextFrameInclusive ==
    /\ frame' = frame + 1
    /\ wpc' = IF frame + 1 <= loc[1].numFrames THEN "v1" ELSE "build"

\* part_013:342, i++ and the loop test
NextFrame ==
    /\ frame' = frame + 1
    /\ wpc' = IF frame + 1 < loc[1].numFrames THEN "v1" ELSE "build"

\* part_013:346-386, the V1 pass of frame i
WorkerV1 ==
    /\ workerState = "alive" /\ wpc = "v1"
    /\ resultData' = V1Pass(req[1], loc[1], resultData, frame)
    /\ IF req[1].mode = "v2" THEN wpc' = "v2" /\ UNCHANGED frame ELSE NextFrame
    /\ UNCHANGED <<callerVars, req, loc, vSrc, vTgt, temps, ik, posted>>

\* the V2 pass without the catch clause: a TypeError ends the handler and
\* nothing is posted
WorkerV2Uncaught ==
    /\ workerState = "alive" /\ wpc = "v2"
    /\ \E v \in {V2Pass(req[1], loc[1], resultData, vSrc, vTgt, temps, frame)} :
           /\ resultData' = v.res
           /\ vSrc' = v.vSrc
           /\ vTgt' = v.vTgt
           /\ temps' = v.temps
           /\ ik' = v.ik
           /\ IF v.ok
              THEN NextFrame
              ELSE wpc' = "done" /\ UNCHANGED frame
    /\ UNCHANGED <<scene, inputsReady, cpc, isLoading, workerStatus, logs, activeClip,
                   timer, workerState, toWorker, crashPending, req, loc, toMain, posted>>

\* part_013:389-460 and 487-489, the V2 pass of frame i; a TypeError ends
\* the handler in its catch clause
WorkerV2 ==
    /\ workerState = "alive" /\ wpc = "v2"
    /\ \E v \in {V2Pass(req[1], loc[1], resultData, vSrc, vTgt, temps, frame)} :
           /\ resultData' = v.res
           /\ vSrc' = v.vSrc
           /\ vTgt' = v.vTgt
           /\ temps' = v.temps
           /\ ik' = v.ik
           /\ IF v.ok
              THEN NextFrame /\ UNCHANGED <<toMain, posted>>
              ELSE /\ Post("ERROR", [type |-> "ERROR", message |-> "TypeError"])
                   /\ wpc' = "done"
                   /\ UNCHANGED frame
    /\ UNCHANGED <<scene, inputsReady, cpc, isLoading, workerStatus, logs, activeClip,
                   timer, workerState, toWorker, crashPending, req, loc>>

\* part_013:463-486, the output tracks and the SUCCESS message
WorkerBuild ==
    /\ workerState = "alive" /\ wpc = "build"
    /\ Post("SUCCESS", [type |-> "SUCCESS",
                        tracks |-> BuildTracks(req[1].mapping, resultData, 1)])
    /\ wpc' = "done"
    /\ UNCHANGED <<scene, inputsReady, cpc, isLoading, workerStatus, logs, activeClip,
                   timer, workerState, toWorker, crashPending,
                   req, frame, loc, resultData, vSrc, vTgt, temps, ik>>

\* the worker dies outside the try block (its script fails to load or the
\* browser kills it); the Worker object receives an error event
WorkerCrash ==
    /\ workerState = "alive" /\ wpc \in {"loading", "waiting", "v1", "v2", "build"}
    /\ wpc' = "crashed"
    /\ crashPending' = TRUE
    /\ UNCHANGED <<scene, inputsReady, cpc, isLoading, workerStatus, logs, activeClip,
                   timer, workerState, toWorker, toMain,
                   req, frame, loc, resultData, vSrc, vTgt, temps, ik, posted>>

(***************************************************************************)
(* Specification of a retarget run: any scene of ScenePool in the store,    *)
(* one invocation of runRetarget, the worker and the handlers.              *)
(***************************************************************************)
InitRetarget0 ==
    /\ inputsReady \in BOOLEAN
    /\ scene \in IF inputsReady THEN ScenePool
                 ELSE {CHOOSE sc \in ScenePool : TRUE}
    /\ cpc = "idle"
    /\ isLoading = FALSE
    /\ workerStatus = "IDLE"
    /\ logs = <<>>
    /\ activeClip = <<>>
    /\ timer = "unset"
    /\ workerState = "none"
    /\ toWorker = <<>>
    /\ toMain = <<>>
    /\ crashPending = FALSE
    /\ wpc = "loading"
    /\ req = <<>>
    /\ frame = 0
    /\ loc = <<>>
    /\ resultData = EmptyResults(<<>>)
    /\ vSrc = VirtualSkeleton(<<>>)
    /\ vTgt = VirtualSkeleton(<<>>)
    /\ temps = [_v1 |-> Vec3Zero, _v2 |-> Vec3Zero, _v3 |-> Vec3Zero]
    /\ ik = <<>>
    /\ posted = <<>>

InitRetarget == InitRetarget0 /\ IdleMatch /\ IdleWeights /\ IdleIK /\ IdleRig /\ IdleHistory

NextRetarget ==
    /\ \/ RunRetargetRejected
       \/ RunRetarget
       \/ Timeout
       \/ OnError
       \/ OnMessage
       \/ WorkerBoot
       \/ WorkerReceive
       \/ WorkerV1
       \/ WorkerV2
       \/ WorkerBuild
       \/ WorkerCrash
    /\ UNCHANGED <<matchVars, weightVars, ikVars, rigVars, historyVars>>

SpecRetarget == InitRetarget /\ [][NextRetarget]_vars

\* The callback of setTimeout as a step of the whole system.  The event loop
\* of the page runs the callback of a timer that stays pending: setTimeout
\* at part_007:183 is cancelled only by the clearTimeout calls of onerror
\* and onmessage.  Nothing is assumed about the worker or about the
\* delivery of its messages and error events.
TimeoutStep ==
    Timeout /\ UNCHANGED <<matchVars, weightVars, ikVars, rigVars, historyVars>>

SpecRetargetFair == SpecRetarget /\ WF_vars(TimeoutStep)

(***************************************************************************)
(* Properties of a retarget run.                                            *)
(***************************************************************************)
\* the terminal messages the worker has posted so far
TerminalPosted == SelectSeq(posted, LAMBDA t : t \in {"SUCCESS", "ERROR"})
\* the SUCCESS messages waiting for the caller
SuccessInFlight == {k \in DOMAIN toMain : toMain[k].type = "SUCCESS"}
\* the tracks of a given bone and type in a track list
TracksNamed(tracks, bone, type) ==
    {k \in DOMAIN tracks : tracks[k].name = bone /\ tracks[k].type = type}
\* the mapped target bones whose source bone has a track
TrackedBones(r) ==
    {b \in Range(MapKeys(r.mapping)) :
        MapGet(r.mapping, b) # "" /\
        HasTracks(sourceBoneTracksOf(r.sourceTracks), MapGet(r.mapping, b))}
\* the log entries that report a handled terminal response or crash
TerminalHandled ==
    \E k \in DOMAIN logs : logs[k].what \in {"retargeted", "retarget failed", "worker error"}

\* C3: for a RETARGET request the worker posts exactly one terminal
\* message: never SUCCESS and ERROR both, none before the request, exactly
\* one once the handler has returned; SUCCESS carries tracks and ERROR a
\* message
C3_OneTerminalMessage ==
    /\ Len(TerminalPosted) <= 1
    /\ (req = <<>> => TerminalPosted = <<>>)
    /\ (wpc = "done" => Len(TerminalPosted) = 1)
    /\ \A k \in DOMAIN toMain :
          /\ toMain[k].type = "SUCCESS" => "tracks" \in DOMAIN toMain[k]
          /\ toMain[k].type = "ERROR" => "message" \in DOMAIN toMain[k]

C3_Witness ==
    /\ wpc = "done" /\ posted = <<"READY", "SUCCESS">>
    /\ req # <<>> /\ req[1].mode = "v2" /\ loc[1].numFrames = 2
    /\ \E k \in SuccessInFlight : Len(toMain[k].tracks) >= 3

\* C4: a run without a handled terminal response keeps its 60 s timer
\* pending, and when the timer fires the run has failed: an error is
\* logged, the loading state is cleared, the worker status is ERROR and the
\* worker is terminated
C4_TimeoutFailsRun ==
    /\ (cpc = "dispatched" /\ ~TerminalHandled) => timer \in {"armed", "fired"}
    /\ timer = "fired" =>
          /\ \E k \in DOMAIN logs : logs[k] = Log("error", "timeout")
          /\ isLoading = FALSE
          /\ workerStatus = "ERROR"
          /\ workerState = "terminated"

C4_Witness ==
    /\ timer = "fired" /\ wpc = "v2" /\ frame = 1
    /\ ~TerminalHandled /\ workerState = "terminated"

\* C5: a run with unmapped target bones or with mapped bones that have no
\* source track ends with SUCCESS in v1 and v2 mode, with no track for such
\* a bone and with the tracks of the other mapped bones
C5_UnmappedBonesNeverFail ==
    /\ wpc = "done" => TerminalPosted = <<"SUCCESS">>
    /\ \A k \in SuccessInFlight : \A b \in Range(MappableBones) :
          LET has == TracksNamed(toMain[k].tracks, b, "quaternion") # {}
          IN  IF b \in TrackedBones(req[1]) THEN loc[1].numFrames > 0 => has ELSE ~has


\* whether a track holds one sample per output frame, frame i at the time
\* i * timeStep
TrackCovers(trk, numFrames, timeStep) ==
    /\ Len(trk.times) = numFrames
    /\ Len(trk.values) = numFrames
    /\ \A i \in 1..Len(trk.times) : trk.times[i] = (i - 1) * timeStep

RootPositionOf(r, lc, t) ==
    LET trk == TracksOf(lc.sbt, MapGet(r.mapping, lc.tgtRootName[1])).pos[1]
        start == IF Len(trk.values) >= 1 THEN trk.values[1] ELSE Vec3Zero
        srcPos == sampleVec(trk, t)
    IN  <<outPosComponent(lc.tgtRestPos[1], srcPos[1], start[1], lc.globalScale),
          outPosComponent(lc.tgtRestPos[2], srcPos[2], start[2], lc.globalScale),
          outPosComponent(lc.tgtRestPos[3], srcPos[3], start[3], lc.globalScale)>>

\* C7: at every output frame the position of the root target bone is the
\* rest position of the target root plus globalScale times (the position
\* of the source bone mapped to it at that frame minus the position of that
\* same source bone at frame 0)
C7_RootPositionFollowsMappedBone ==
    \A k \in SuccessInFlight :
        \A j \in DOMAIN toMain[k].tracks :
            LET trk == toMain[k].tracks[j]
            IN  (trk.type = "vector" /\ loc[1].tgtRootName = <<trk.name>>) =>
                    \A i \in DOMAIN trk.values :
                        trk.values[i] = RootPositionOf(req[1], loc[1], trk.times[i])

\* the bones the IK pass writes back: the root and the middle of a chain
IkBones(r) ==
    {r.targetChains[k].root : k \in DOMAIN r.targetChains}
    \cup {r.targetChains[k].middle : k \in DOMAIN r.targetChains}

\* whether sample i of bone b is as the rotation pass left it: the run is
\* in v1 mode, or the IK pass does not write b, or it has not yet run on
\* the frame of the sample
FromRotationPass(b, i) ==
    \/ req[1].mode = "v1"
    \/ b \notin IkBones(req[1])
    \/ wpc = "v2" /\ i = Len(resultData[b].rotValues)

\* C8: for a mapped bone whose source bone has a rotation track and the
\* same rest rotation, every output rotation of the rotation pass is the
\* raw sample of the source track at the time of the frame
C8_IdenticalRestsCopySource ==
    req # <<>> =>
        \A b \in DOMAIN resultData :
            LET sourceBone == MapGet(req[1].mapping, b)
                same == RestOf(req[1].targetRestRotations, b)
                          = RestOf(req[1].sourceRestRotations, sourceBone)
            IN  (/\ sourceBone # "" /\ HasTracks(loc[1].sbt, sourceBone) /\ same
                 /\ TracksOf(loc[1].sbt, sourceBone).quat # <<>>) =>
                    \A i \in DOMAIN resultData[b].rotValues :
                        FromRotationPass(b, i) =>
                          resultData[b].rotValues[i] =
                            sampleQuat(TracksOf(loc[1].sbt, sourceBone).quat[1],
                                       resultData[b].times[i])

C8_Witness ==
    /\ req # <<>> /\ "LeftUpLeg" \in DOMAIN resultData
    /\ RestOf(req[1].targetRestRotations, "LeftUpLeg") = HalfTurnX
    /\ RestOf(req[1].sourceRestRotations, "LeftUpLeg") = HalfTurnX
    /\ Len(resultData["LeftUpLeg"].rotValues) = 2
    /\ resultData["LeftUpLeg"].rotValues[2] = HalfTurnX

\* C9: a call of the solver that ends before its iteration bound leaves the
\* effector within the tolerance of the goal requested for the chain and
\* the frame, and a call that starts with the effector farther away makes
\* at least one pass of correction steps
C9_EarlyStopOnlyAtGoal ==
    \A k \in DOMAIN ik :
        /\ ik[k].iters < MaxIterCurrent => WithinTolerance(ik[k].after, ik[k].goal)
        /\ ~WithinTolerance(ik[k].before, ik[k].goal) => ik[k].iters >= 1

(***************************************************************************)
(* solveTwoBoneIK on its own: the solver of the legacy worker               *)
(* (retarget.worker.ts:104-156) and the solver of the current worker        *)
(* (part_013:114-154), called on the leg of a skeleton with a target on     *)
(* the line of the leg.                                                     *)
(***************************************************************************)
\* the step that turns the bone away from the target
CcdStepLegacyAway(st, bone, effector) ==
    With(getWorldPosition(st.skel, bone), LAMBDA boneWorld :
    With(normalizeVec(VecSub(getWorldPosition(st.skel, effector), boneWorld)),
         LAMBDA toEffector :
    With(normalizeVec(VecSub(boneWorld, st.temps._tVec3)), LAMBDA toTarget :
      [st EXCEPT !.skel = ApplyRotation(st.skel, bone,
                              setFromUnitVectors(toEffector, toTarget)),
                 !.temps = [st.temps EXCEPT !._tVec1 = toEffector,
                                            !._tVec2 = toTarget]])))

\* retarget.worker.ts:124-154, the step of one bone.  The target is the
\* copy in _tVec3; the rotation is applied undamped
CcdStepLegacy(st, bone, effector) ==
    With(getWorldPosition(st.skel, bone), LAMBDA boneWorld :
    With(normalizeVec(VecSub(getWorldPosition(st.skel, effector), boneWorld)),
         LAMBDA toEffector :
    With(normalizeVec(VecSub(st.temps._tVec3, boneWorld)), LAMBDA toTarget :
      [st EXCEPT !.skel = ApplyRotation(st.skel, bone,
                              setFromUnitVectors(toEffector, toTarget)),
                 !.temps = [st.temps EXCEPT !._tVec1 = toEffector,
                                            !._tVec2 = toTarget]])))

\* retarget.worker.ts:120-154, one pass of the loop; st as for the current
\* solver
solveTwoBoneIKLegacyPass(st, root, middle, effector) ==
    With(getWorldPosition(st.skel, effector), LAMBDA effectorWorld :
    With([st EXCEPT !.temps._tVec1 = effectorWorld,
                    !.dists = Append(@, distanceToSquared(effectorWorld,
                                                          st.temps._tVec3))],
         LAMBDA s1 :
      IF WithinTolerance(effectorWorld, s1.temps._tVec3) THEN [s1 EXCEPT !.stop = TRUE]
      ELSE With(CcdStepLegacy(s1, middle, effector), LAMBDA s2 :
             [CcdStepLegacy(s2, root, effector) EXCEPT !.iters = @ + 1])))

\* retarget.worker.ts:119, the loop: n passes from st on, or fewer when
\* line 121 leaves the loop
RECURSIVE solveTwoBoneIKLegacyLoop(_, _, _, _, _)
solveTwoBoneIKLegacyLoop(st, root, middle, effector, n) ==
    IF n = 0 \/ st.stop THEN st
    ELSE IF n = 1 THEN solveTwoBoneIKLegacyPass(st, root, middle, effector)
    ELSE With(solveTwoBoneIKLegacyLoop(st, root, middle, effector, n \div 2),
              LAMBDA s1 : solveTwoBoneIKLegacyLoop(s1, root, middle, effector,
                                                   n - n \div 2))

\* retarget.worker.ts:104-156; line 117 copies the target to _tVec3
solveTwoBoneIKLegacy(skel, scratch, root, middle, effector, targetPos) ==
    solveTwoBoneIKLegacyLoop(
        [skel |-> skel, temps |-> [scratch EXCEPT !._tVec3 = scratch[targetPos]],
         iters |-> 0, dists |-> <<>>, stop |-> FALSE], root, middle, effector,
        MaxIterLegacy)

\* the farthest target, counted from the root of the chain
MaxReach == 8

\* a skeleton whose leg has the given bone lengths
Leg(upLegRot, upper, lower) ==
    << Bone("Hips", "", <<0, 10, 0>>, QuatIdentity),
       Bone("LeftUpLeg", "Hips", <<0, -2, 0>>, upLegRot),
       Bone("LeftLeg", "LeftUpLeg", <<0, -upper, 0>>, QuatIdentity),
       Bone("LeftFoot", "LeftLeg", <<0, -lower, 0>>, QuatIdentity) >>

IkInputPool ==
    [def    : {Leg(q, upper, lower) : q \in {QuatIdentity, HalfTurnX},
                                      upper \in {2, 4}, lower \in {2, 4}},
     target : {<<0, 8 + y, 0>> : y \in (-MaxReach)..MaxReach}]

\* the chain of the call and the skeleton at rest
IkChain(in) == findIKChains(in.def)[1]
IkSkel(in) == VirtualSkeleton(in.def)

\* a reachable target: no farther from the root of the chain than the two
\* bones together and no nearer than the difference of their lengths
Reachable(in) ==
    LET c == IkChain(in)
        l1 == distanceTo(getWorldPosition(IkSkel(in), c.root),
                         getWorldPosition(IkSkel(in), c.middle))
        l2 == distanceTo(getWorldPosition(IkSkel(in), c.middle),
                         getWorldPosition(IkSkel(in), c.effector))
        d == distanceTo(getWorldPosition(IkSkel(in), c.root), in.target)
    IN  AbsInt(l1 - l2) <= d /\ d <= l1 + l2

\* the targets for which no bone of the chain has to turn: seen from the
\* middle and from the root the target lies where the effector lies.  A
\* turn of the current solver is damped (part_013:138) to a rotation that
\* takes the chain off the axes
TurnFree(in) ==
    \A bone \in {IkChain(in).middle, IkChain(in).root} :
        LET at == getWorldPosition(IkSkel(in), bone)
            toEffector ==
                normalizeVec(VecSub(getWorldPosition(IkSkel(in), IkChain(in).effector), at))
            toTarget == normalizeVec(VecSub(in.target, at))
        IN  toTarget = toEffector \/ toTarget = Vec3Zero

\* what a call did: the passes of the loop, the squared distances from the
\* effector to the target at each test of the loop and after the call
IkResult(in, solver, bound, st) ==
    [solver |-> solver, bound |-> bound, iters |-> st.iters,
     dists  |-> Append(st.dists,
                       distanceToSquared(getWorldPosition(st.skel, IkChain(in).effector),
                                         in.target))]

\* retarget.worker.ts:425-434, the call of the legacy worker: the target
\* is handed over in _tVec1
SolveLegacy ==
    /\ ikIn # <<>> /\ ikOut = <<>>
    /\ \E c \in {IkChain(ikIn[1])} :
       \E st \in {solveTwoBoneIKLegacy(IkSkel(ikIn[1]),
                      [_tVec1 |-> ikIn[1].target, _tVec2 |-> Vec3Zero, _tVec3 |-> Vec3Zero],
                      c.root, c.middle, c.effector, "_tVec1")} :
           ikOut' = <<IkResult(ikIn[1], "legacy", MaxIterLegacy, st)>>
    /\ UNCHANGED <<ikIn, matchVars, weightVars, retargetVars, rigVars, historyVars>>

\* the current solver, called with the target in a vector of the caller's
\* own or, as part_013:438-446 calls it, in the scratch vector _v1
SolveCurrent ==
    /\ ikIn # <<>> /\ ikOut = <<>>
    /\ \E targetPos \in {"own", "_v1"} :
       \E c \in {IkChain(ikIn[1])} :
           /\ targetPos = "own" => TurnFree(ikIn[1])
           /\ \E st \in {solveTwoBoneIK(IkSkel(ikIn[1]),
                             [_v1 |-> IF targetPos = "_v1" THEN ikIn[1].target ELSE Vec3Zero,
                              _v2 |-> Vec3Zero, _v3 |-> Vec3Zero, own |-> ikIn[1].target],
                             c.root, c.middle, c.effector, targetPos)} :
                  ikOut' = <<IkResult(ikIn[1], targetPos, MaxIterCurrent, st)>>
    /\ UNCHANGED <<ikIn, matchVars, weightVars, retargetVars, rigVars, historyVars>>

InitIK0 ==
    /\ ikIn \in {<<in>> : in \in IkInputPool}
    /\ ikOut = <<>>

InitIK == InitIK0 /\ IdleMatch /\ IdleWeights /\ IdleRetarget /\ IdleRig /\ IdleHistory

NextIK == SolveLegacy \/ SolveCurrent

SpecIK == InitIK /\ [][NextIK]_vars

C11_IkPassWritesOwnFrame ==
    [][wpc = "v2" =>
          /\ DOMAIN resultData' = DOMAIN resultData
          /\ \A b \in DOMAIN resultData :
                /\ resultData'[b].times = resultData[b].times
                /\ resultData'[b].posValues = resultData[b].posValues
                /\ Len(resultData'[b].rotValues) = Len(resultData[b].rotValues)
                /\ \A k \in DOMAIN resultData[b].rotValues :
                      resultData'[b].rotValues[k] # resultData[b].rotValues[k] =>
                          /\ k = Len(resultData[b].rotValues)
                          /\ resultData[b].times[k] = frame * req[1].timeStep
                          /\ b \in IkBones(req[1])]_vars

C11_Witness ==
    /\ req # <<>> /\ req[1].mode = "v2" /\ wpc = "v2" /\ frame = 1
    /\ "LeftUpLeg" \in DOMAIN resultData /\ "LeftLeg" \in DOMAIN resultData
    /\ resultData["LeftUpLeg"].rotValues[1] = QuatNaN
    /\ resultData["LeftLeg"].rotValues[1] = QuatNaN
    /\ resultData["LeftUpLeg"].rotValues[2] # QuatNaN
    /\ "Hips" \in DOMAIN resultData /\ resultData["Hips"].rotValues[1] # QuatNaN

\* C12: the IK pass of a frame leaves the same output samples and the same
\* poses of the two virtual skeletons as it does when it starts from the
\* skeletons at rest: nothing of the frames before is carried over
C12_FramesIndependent ==
    [][(wpc = "v2" /\ frame' = frame + 1) =>
          \E fresh \in {V2Pass(req[1], loc[1], resultData,
                               VirtualSkeleton(req[1].sourceDef),
                               VirtualSkeleton(req[1].targetDef), temps, frame)} :
              /\ resultData' = fresh.res
              /\ vSrc' = fresh.vSrc
              /\ vTgt' = fresh.vTgt]_vars

\* a clip of a single frame: of duration 0, or with one key in every track
SingleFrameClip(r) ==
    \/ r.duration = 0
    \/ \A k \in DOMAIN r.sourceTracks : Len(r.sourceTracks[k].times) = 1

\* the two skeletons have the same bones at the same rest pose, and every
\* mapped bone is mapped to the bone of its name
IdenticalSkeletons(r) ==
    /\ r.sourceDef = r.targetDef
    /\ \A k \in DOMAIN r.mapping : r.mapping[k].key = r.mapping[k].value

\* C13: the output of a single-frame clip retargeted between identical
\* skeletons has, for every mapped bone with a source rotation track, a
\* rotation track with at least one sample, whose samples are those of the
\* source track at their times
C13_SingleFrameClipCopied ==
    \A k \in SuccessInFlight :
        (SingleFrameClip(req[1]) /\ IdenticalSkeletons(req[1])) =>
            \A b \in TrackedBones(req[1]) :
                TracksOf(loc[1].sbt, b).quat # <<>> =>
                    \E j \in TracksNamed(toMain[k].tracks, b, "quaternion") :
                        /\ Len(toMain[k].tracks[j].values) >= 1
                        /\ \A i \in DOMAIN toMain[k].tracks[j].values :
                              toMain[k].tracks[j].values[i] =
                                  sampleQuat(TracksOf(loc[1].sbt, b).quat[1],
                                             toMain[k].tracks[j].times[i])

\* the position tracks of an output
VectorTracks(tracks) == {j \in DOMAIN tracks : tracks[j].type = "vector"}

\* C14: an output holds at most one position track, and it is the track of
\* the root target bone; while the frames are computed, no other bone
\* gathers a position sample
C14_PositionTrackOnlyForRoot ==
    /\ \A b \in DOMAIN resultData :
          resultData[b].posValues # <<>> => loc[1].tgtRootName = <<b>>
    /\ \A k \in SuccessInFlight :
          /\ Cardinality(VectorTracks(toMain[k].tracks)) <= 1
          /\ \A j \in VectorTracks(toMain[k].tracks) :
                loc[1].tgtRootName = <<toMain[k].tracks[j].name>>

C14_Witness ==
    \E k \in SuccessInFlight :
        /\ "LeftUpLeg" \in TrackedBones(req[1])
        /\ TracksOf(loc[1].sbt, "LeftUpLeg").pos # <<>>
        /\ TracksNamed(toMain[k].tracks, "LeftUpLeg", "quaternion") # {}
        /\ TracksNamed(toMain[k].tracks, "LeftUpLeg", "vector") = {}
        /\ TracksNamed(toMain[k].tracks, "Hips", "vector") # {}

\* whether a sample, a vector or a quaternion, holds a NaN
SampleHasNaN(v) == \E i \in DOMAIN v : isNaN(v[i])

\* C15: the scale factor of a run is a number in the accepted range, and
\* no time stamp and no component of a sample of an output is NaN
C15_NoNaNInScaleOrOutput ==
    /\ loc # <<>> =>
          /\ ~isNaN(loc[1].globalScale.num) /\ ~isNaN(loc[1].globalScale.den)
          /\ loc[1].globalScale.den > 0
          /\ loc[1].globalScale.num * ScaleRange >= loc[1].globalScale.den
          /\ loc[1].globalScale.num <= ScaleRange * loc[1].globalScale.den
    /\ \A k \in SuccessInFlight : \A j \in DOMAIN toMain[k].tracks :
          /\ \A i \in DOMAIN toMain[k].tracks[j].times : ~isNaN(toMain[k].tracks[j].times[i])
          /\ \A i \in DOMAIN toMain[k].tracks[j].values :
                ~SampleHasNaN(toMain[k].tracks[j].values[i])

\* the pairs C16 has committed: those of the list, taken in its order, with
\* a score of at least MinScore whose target and source are not the target
\* or the source of a pair committed before
RECURSIVE CommittedWhenFree(_, _, _)
CommittedWhenFree(cands, targets, sources) ==
    IF cands = <<>> THEN <<>>
    ELSE With(Head(cands), LAMBDA c :
           IF c.score >= MinScore /\ c.target \notin targets /\ c.source \notin sources
           THEN <<c>> \o CommittedWhenFree(Tail(cands), targets \cup {c.target},
                                           sources \cup {c.source})
           ELSE CommittedWhenFree(Tail(cands), targets, sources))

\* C16: the pairs are visited in non-increasing order of score, and the
\* pairs committed are exactly those that, when reached, score at least 40
\* and have neither their target nor their source assigned
C16_GreedyCommitsWhenFree ==
    matchDone =>
        \E sorted \in {SortedCandidates(targetBones, sourceBones)} :
            /\ \A i \in 1..(Len(sorted) - 1) : sorted[i].score >= sorted[i + 1].score
            /\ commits = CommittedWhenFree(sorted, {}, {})

\* whether a bone name corresponds to an entry of the alias dictionary: it
\* is the entry once it is in lower case and without the Mixamo prefix
CorrespondsTo(name, alias) == RemoveToken(toLowerCase(name), "mixamorig", {":"}) = alias

\* the alias groups a bone name has an entry in
GroupsOf(name) ==
    {g \in DOMAIN BONE_ALIAS_GROUPS :
        \E k \in DOMAIN BONE_ALIAS_GROUPS[g] : CorrespondsTo(name, BONE_ALIAS_GROUPS[g][k])}

\* C17: a target bone and a source bone whose names correspond to entries
\* of the same alias group score at least 90
C17_SameAliasGroupScores90 ==
    matchDone =>
        \A i \in DOMAIN targetBones : \A j \in DOMAIN sourceBones :
            GroupsOf(targetBones[i]) \cap GroupsOf(sourceBones[j]) # {} =>
                scoreBoneMatch(targetBones[i], sourceBones[j]) >= 90

(***************************************************************************)
(* autoRig.ts: the skeleton and the envelope segments made from the        *)
(* rigging markers.  Positions are <<x, y, z>> in millimetres; Null is a   *)
(* marker or position that is not there (null in the source).  The pool's  *)
(* coordinates make every product below an integer.  The rotations of the  *)
(* bones are not followed: a bone carries its world position.              *)
(***************************************************************************)
Null == <<>>

\* every marker but 'head'
RequiredMarkers ==
    {"chin", "pelvis", "spine_mid", "chest", "l_shoulder", "r_shoulder", "l_wrist",
     "r_wrist", "l_elbow", "r_elbow", "l_knee", "r_knee", "l_ankle", "r_ankle",
     "l_toe", "r_toe"}

\* required markers that a marker set of the pool may lack
MaxMissing == 2
\* vertices of the largest mesh
MaxVerts == 2

\* the marker set of autoRig.test.ts:10-27, with a head-top marker
DefaultMarkers ==
    [chin |-> <<0, 1700, 100>>, pelvis |-> <<0, 900, 0>>, spine_mid |-> <<0, 1150, 0>>,
     chest |-> <<0, 1400, 0>>, l_shoulder |-> <<180, 1450, -20>>,
     r_shoulder |-> <<-180, 1450, -20>>, l_wrist |-> <<400, 1000, 0>>,
     r_wrist |-> <<-400, 1000, 0>>, l_elbow |-> <<250, 1200, -50>>,
     r_elbow |-> <<-250, 1200, -50>>, l_knee |-> <<100, 500, 50>>,
     r_knee |-> <<-100, 500, 50>>, l_ankle |-> <<100, 80, 20>>,
     r_ankle |-> <<-100, 80, 20>>, l_toe |-> <<100, 20, 100>>,
     r_toe |-> <<-100, 20, 100>>, head |-> <<0, 1900, 0>>]

\* heights of the head-top marker: the default, the threshold of
\* autoRig.ts:659, a positive height under it, a negative one
HeadHeights == {1900, 100, 50, -100}
\* heights of the chin marker: the default, zero, a negative one
ChinHeights == {1700, 0, -300}

\* the default markers with the head-top at headY and the chin at chinY
MarkersAt(headY, chinY) ==
    [DefaultMarkers EXCEPT !.head = <<0, headY, 0>>, !.chin = <<0, chinY, 100>>]

\* the markers without some of them
MarkerPool ==
    {[n \in (DOMAIN DefaultMarkers) \ gone |-> MarkersAt(headY, chinY)[n]] :
        gone \in {g \in SUBSET (DOMAIN DefaultMarkers) :
                     Cardinality(g \cap RequiredMarkers) <= MaxMissing},
        headY \in HeadHeights, chinY \in ChinHeights}

\* autoRig.ts:619-622, getPos
getPos(markers, name) == IF name \in DOMAIN markers THEN markers[name] ELSE Null

\* x * num / den
Ratio(x, num, den) == (x * num) \div den

\* Vector3.lerpVectors(v1, v2, num / den)
lerpVectors(v1, v2, num, den) ==
    [i \in 1..3 |-> v1[i] + Ratio(v2[i] - v1[i], num, den)]

\* the markers resolveMarkerPositions reads a coordinate of, or clones:
\* without one of them the function throws a TypeError.  chin is cloned
\* for the head estimate and read by lerpVectors
ResolveDereferences ==
    {"chin", "pelvis", "chest", "l_shoulder", "r_shoulder", "l_elbow", "r_elbow",
     "l_knee", "r_knee"}

\* the body height with the head-top taken whenever it is above 0
bodyHeightOfPositiveHead(head, chin) ==
    IF head[2] > 0 THEN head[2]
    ELSE IF chin[2] # 0 THEN chin[2] ELSE 1700

\* autoRig.ts:659, head.y > 0.1 ? head.y : (chin.y || 1.7)
bodyHeightOf(head, chin) ==
    IF head[2] > 100 THEN head[2]
    ELSE IF chin[2] # 0 THEN chin[2] ELSE 1700

\* autoRig.ts:618-674, resolveMarkerPositions; threw tells a TypeError
resolveMarkerPositions(markers) ==
    IF \E n \in ResolveDereferences : getPos(markers, n) = Null
    THEN [threw |-> TRUE]
    ELSE LET P(n) == getPos(markers, n)
             head == IF P("head") # Null THEN P("head")
                     ELSE <<P("chin")[1], P("chin")[2] + 200, P("chin")[3]>>
             neckPos == lerpVectors(P("chest"), P("chin"), 1, 2)
             bodyHeight == bodyHeightOf(head, P("chin"))
         IN  [threw |-> FALSE,
              chin |-> P("chin"), head |-> head, pelvis |-> P("pelvis"),
              spine_mid |-> P("spine_mid"), chest |-> P("chest"),
              l_shoulder |-> P("l_shoulder"), r_shoulder |-> P("r_shoulder"),
              l_wrist |-> P("l_wrist"), r_wrist |-> P("r_wrist"),
              l_elbow |-> P("l_elbow"), r_elbow |-> P("r_elbow"),
              l_knee |-> P("l_knee"), r_knee |-> P("r_knee"),
              l_ankle |-> P("l_ankle"), r_ankle |-> P("r_ankle"),
              l_toe |-> P("l_toe"), r_toe |-> P("r_toe"),
              neckPos |-> neckPos,
              spine2Pos |-> lerpVectors(P("chest"), neckPos, 3, 10),
              l_hip_joint |-> [P("pelvis") EXCEPT ![1] = Ratio(P("l_knee")[1], 8, 10)],
              r_hip_joint |-> [P("pelvis") EXCEPT ![1] = Ratio(P("r_knee")[1], 8, 10)],
              l_armStart |-> lerpVectors(P("l_shoulder"), P("l_elbow"), 3, 10),
              r_armStart |-> lerpVectors(P("r_shoulder"), P("r_elbow"), 3, 10),
              bodyHeight |-> bodyHeight,
              \* bodyHeight * 0.08, in hundredths of a millimetre
              baseRadius |-> bodyHeight * 8]

\* one BoneSegment; the radius is baseRadius * tenths / 10, in thousandths
\* of a millimetre
Segment(boneIndex, boneName, start, end, baseRadius, tenths) ==
    [boneIndex |-> boneIndex, boneName |-> boneName, start |-> start, end |-> end,
     radius |-> baseRadius * tenths]

\* autoRig.ts:696, 702, 708, 714: the positions buildSegments clones
BuildSegmentsDereferences == {"l_toe", "r_toe", "l_wrist", "r_wrist"}

\* autoRig.ts:680-715, buildSegments; a position that is null ends up in
\* the segment, except for the four that are cloned (a TypeError)
buildSegments(pos) ==
    IF \E n \in BuildSegmentsDereferences : pos[n] = Null THEN [threw |-> TRUE]
    ELSE [threw |-> FALSE, segments |-> <<
        Segment(0, "Hips", pos.pelvis, pos.spine_mid, pos.baseRadius, 18),
        Segment(1, "Spine", pos.spine_mid, pos.chest, pos.baseRadius, 15),
        Segment(2, "Spine1", pos.chest, pos.spine2Pos, pos.baseRadius, 14),
        Segment(3, "Spine2", pos.spine2Pos, pos.neckPos, pos.baseRadius, 12),
        Segment(4, "Neck", pos.neckPos, pos.chin, pos.baseRadius, 6),
        Segment(5, "Head", pos.chin, pos.head, pos.baseRadius, 10),
        Segment(6, "LeftUpLeg", pos.l_hip_joint, pos.l_knee, pos.baseRadius, 11),
        Segment(7, "LeftLeg", pos.l_knee, pos.l_ankle, pos.baseRadius, 8),
        Segment(8, "LeftFoot", pos.l_ankle, pos.l_toe, pos.baseRadius, 6),
        Segment(9, "LeftToeBase", pos.l_toe,
                <<pos.l_toe[1], pos.l_toe[2], pos.l_toe[3] + 50>>, pos.baseRadius, 4),
        Segment(10, "RightUpLeg", pos.r_hip_joint, pos.r_knee, pos.baseRadius, 11),
        Segment(11, "RightLeg", pos.r_knee, pos.r_ankle, pos.baseRadius, 8),
        Segment(12, "RightFoot", pos.r_ankle, pos.r_toe, pos.baseRadius, 6),
        Segment(13, "RightToeBase", pos.r_toe,
                <<pos.r_toe[1], pos.r_toe[2], pos.r_toe[3] + 50>>, pos.baseRadius, 4),
        Segment(14, "LeftShoulder", pos.spine2Pos, pos.l_shoulder, pos.baseRadius, 8),
        Segment(15, "LeftArm", pos.l_armStart, pos.l_elbow, pos.baseRadius, 7),
        Segment(16, "LeftForeArm", pos.l_elbow, pos.l_wrist, pos.baseRadius, 6),
        Segment(17, "LeftHand", pos.l_wrist,
                <<pos.l_wrist[1] + 50, pos.l_wrist[2], pos.l_wrist[3]>>, pos.baseRadius, 5),
        Segment(18, "RightShoulder", pos.spine2Pos, pos.r_shoulder, pos.baseRadius, 8),
        Segment(19, "RightArm", pos.r_armStart, pos.r_elbow, pos.baseRadius, 7),
        Segment(20, "RightForeArm", pos.r_elbow, pos.r_wrist, pos.baseRadius, 6),
        Segment(21, "RightHand", pos.r_wrist,
                <<pos.r_wrist[1] - 50, pos.r_wrist[2], pos.r_wrist[3]>>, pos.baseRadius, 5) >>]

\* autoRig.ts:852-876, wp: the world position of each bone
WorldPositions(pos) ==
    [Hips |-> pos.pelvis, Spine |-> pos.spine_mid, Spine1 |-> pos.chest,
     Spine2 |-> pos.spine2Pos, Neck |-> pos.neckPos, Head |-> pos.chin,
     Head_End |-> pos.head, LeftUpLeg |-> pos.l_hip_joint, LeftLeg |-> pos.l_knee,
     LeftFoot |-> pos.l_ankle, LeftToeBase |-> pos.l_toe,
     RightUpLeg |-> pos.r_hip_joint, RightLeg |-> pos.r_knee, RightFoot |-> pos.r_ankle,
     RightToeBase |-> pos.r_toe, LeftShoulder |-> pos.l_shoulder,
     LeftArm |-> pos.l_armStart, LeftForeArm |-> pos.l_elbow, LeftHand |-> pos.l_wrist,
     RightShoulder |-> pos.r_shoulder, RightArm |-> pos.r_armStart,
     RightForeArm |-> pos.r_elbow, RightHand |-> pos.r_wrist]

\* the table with the end of the head as a child of the neck
HierarchyHeadEndOnNeck ==
    << <<"Hips", "">>, <<"Spine", "Hips">>, <<"Spine1", "Spine">>,
       <<"Spine2", "Spine1">>, <<"Neck", "Spine2">>, <<"Head", "Neck">>,
       <<"LeftUpLeg", "Hips">>, <<"LeftLeg", "LeftUpLeg">>, <<"LeftFoot", "LeftLeg">>,
       <<"LeftToeBase", "LeftFoot">>,
       <<"RightUpLeg", "Hips">>, <<"RightLeg", "RightUpLeg">>,
       <<"RightFoot", "RightLeg">>, <<"RightToeBase", "RightFoot">>,
       <<"LeftShoulder", "Spine2">>, <<"LeftArm", "LeftShoulder">>,
       <<"LeftForeArm", "LeftArm">>, <<"LeftHand", "LeftForeArm">>,
       <<"RightShoulder", "Spine2">>, <<"RightArm", "RightShoulder">>,
       <<"RightForeArm", "RightArm">>, <<"RightHand", "RightForeArm">>,
       <<"Head_End", "Neck">> >>

\* autoRig.ts:881-905, hierarchy: bone name and parent name ("" for null),
\* in the order of the bone list
hierarchy ==
    << <<"Hips", "">>, <<"Spine", "Hips">>, <<"Spine1", "Spine">>,
       <<"Spine2", "Spine1">>, <<"Neck", "Spine2">>, <<"Head", "Neck">>,
       <<"LeftUpLeg", "Hips">>, <<"LeftLeg", "LeftUpLeg">>, <<"LeftFoot", "LeftLeg">>,
       <<"LeftToeBase", "LeftFoot">>,
       <<"RightUpLeg", "Hips">>, <<"RightLeg", "RightUpLeg">>,
       <<"RightFoot", "RightLeg">>, <<"RightToeBase", "RightFoot">>,
       <<"LeftShoulder", "Spine2">>, <<"LeftArm", "LeftShoulder">>,
       <<"LeftForeArm", "LeftArm">>, <<"LeftHand", "LeftForeArm">>,
       <<"RightShoulder", "Spine2">>, <<"RightArm", "RightShoulder">>,
       <<"RightForeArm", "RightArm">>, <<"RightHand", "RightForeArm">>,
       <<"Head_End", "Head">> >>

\* autoRig.ts:947-984, phase 2: the bones in the order of the table.  A bone
\* without a world position is left out (phase 1 gave it no rotation
\* either); a bone whose parent was left out is added as a root
RECURSIVE BuildBones(_, _, _)
BuildBones(wp, k, bones) ==
    IF k > Len(hierarchy) THEN bones
    ELSE With(hierarchy[k], LAMBDA h :
           IF wp[h[1]] = Null THEN BuildBones(wp, k + 1, bones)
           ELSE BuildBones(wp, k + 1,
                  Append(bones,
                         [name |-> h[1], at |-> wp[h[1]],
                          parent |-> IF h[2] # "" /\ \E j \in DOMAIN bones : bones[j].name = h[2]
                                     THEN h[2] ELSE ""])))

\* whether distanceToSegment (autoRig.ts:721-723) reads a coordinate of a
\* null start or end for some vertex
WeightsThrow(segs, verts) ==
    verts > 0 /\ \E i \in DOMAIN segs : segs[i].start = Null \/ segs[i].end = Null

\* autoRig.ts:840-1011, createRiggedCharacter: the bones of the skeleton,
\* the segments and the number of skin indices, or a TypeError
createRiggedCharacter(markers, verts) ==
    With(resolveMarkerPositions(markers), LAMBDA pos :
      IF pos.threw THEN [threw |-> TRUE]
      ELSE With(BuildBones(WorldPositions(pos), 1, <<>>), LAMBDA bones :
           With(buildSegments(pos), LAMBDA b :
             IF b.threw \/ WeightsThrow(b.segments, verts) THEN [threw |-> TRUE]
             ELSE [threw |-> FALSE, bones |-> bones, segments |-> b.segments,
                   skinIndices |-> 4 * verts, skinWeights |-> 4 * verts])))

\* the colour array with four channels per vertex
NewColorsRGBA(vertexCount) == [k \in 1..(vertexCount * 4) |-> "unset"]

\* autoRig.ts:1020, new Float32Array(vertexCount * 3); "unset" is the 0
\* the array is created with
NewColors(vertexCount) == [k \in 1..(vertexCount * 3) |-> "unset"]

\* autoRig.ts:1056-1058, the three channels of vertex i (counted from 0);
\* a typed array drops a write past its end.  The values of the channels
\* are not followed: a channel written holds "set"
WriteColor(colors, i) ==
    [k \in DOMAIN colors |-> IF k \in (i * 3 + 1)..(i * 3 + 3) THEN "set" ELSE colors[k]]

\* autoRig.ts:1032-1059, the loop over the vertices
RECURSIVE PreviewLoop(_, _, _)
PreviewLoop(colors, i, vertexCount) ==
    IF i >= vertexCount THEN colors
    ELSE With(WriteColor(colors, i), LAMBDA c : PreviewLoop(c, i + 1, vertexCount))

\* autoRig.ts:1014-1062, computeWeightPreviewFromMarkers: the colour
\* channels returned, or a TypeError
computeWeightPreviewFromMarkers(markers, verts) ==
    With(NewColors(verts), LAMBDA colors :
    With(resolveMarkerPositions(markers), LAMBDA pos :
      IF pos.threw THEN [threw |-> TRUE]
      ELSE With(buildSegments(pos), LAMBDA b :
             IF b.threw \/ WeightsThrow(b.segments, verts) THEN [threw |-> TRUE]
             ELSE [threw |-> FALSE, colors |-> PreviewLoop(colors, 0, verts)])))

(***************************************************************************)
(* Specification of the rigging: a marker set of the pool and a mesh, then *)
(* one call of each of the two exported functions.                         *)
(***************************************************************************)
CreateRiggedCharacter ==
    /\ rigOut = <<>>
    /\ rigOut' = <<createRiggedCharacter(rigMarkers, rigVerts)>>
    /\ UNCHANGED <<rigMarkers, rigVerts, previewOut, matchVars, weightVars,
                   retargetVars, ikVars, historyVars>>

ComputeWeightPreview ==
    /\ previewOut = <<>>
    /\ previewOut' = <<computeWeightPreviewFromMarkers(rigMarkers, rigVerts)>>
    /\ UNCHANGED <<rigMarkers, rigVerts, rigOut, matchVars, weightVars,
                   retargetVars, ikVars, historyVars>>

InitRig0 ==
    /\ rigMarkers \in MarkerPool
    /\ rigVerts \in 0..MaxVerts
    /\ rigOut = <<>>
    /\ previewOut = <<>>

InitRig == InitRig0 /\ IdleMatch /\ IdleWeights /\ IdleRetarget /\ IdleIK /\ IdleHistory

NextRig == CreateRiggedCharacter \/ ComputeWeightPreview

SpecRig == InitRig /\ [][NextRig]_vars

\* whether no required marker is missing
CompleteMarkers(markers) == RequiredMarkers \subseteq DOMAIN markers

\* the parent table C18 refers to: the spine chain up to the end of the
\* head, two leg chains off the hips, two arm chains off Spine2
TableParent ==
    [Spine |-> "Hips", Spine1 |-> "Spine", Spine2 |-> "Spine1", Neck |-> "Spine2",
     Head |-> "Neck", Head_End |-> "Head",
     LeftUpLeg |-> "Hips", LeftLeg |-> "LeftUpLeg", LeftFoot |-> "LeftLeg",
     LeftToeBase |-> "LeftFoot",
     RightUpLeg |-> "Hips", RightLeg |-> "RightUpLeg", RightFoot |-> "RightLeg",
     RightToeBase |-> "RightFoot",
     LeftShoulder |-> "Spine2", LeftArm |-> "LeftShoulder", LeftForeArm |-> "LeftArm",
     LeftHand |-> "LeftForeArm",
     RightShoulder |-> "Spine2", RightArm |-> "RightShoulder",
     RightForeArm |-> "RightArm", RightHand |-> "RightForeArm"]

C19_SegmentsAlignedWithBones ==
    (rigOut # <<>> /\ ~rigOut[1].threw) =>
        /\ Len(rigOut[1].segments) = Len(rigOut[1].bones)
        /\ \A i \in DOMAIN rigOut[1].segments :
              /\ rigOut[1].segments[i].boneIndex = i - 1
              /\ i \in DOMAIN rigOut[1].bones
              /\ rigOut[1].segments[i].boneName = rigOut[1].bones[i].name

\* C20: with a required marker missing both functions end with an error,
\* whatever the mesh, and with none missing (the head-top marker present or
\* not) neither does
C20_MissingRequiredMarkerRejected ==
    /\ rigOut # <<>> => (rigOut[1].threw <=> ~CompleteMarkers(rigMarkers))
    /\ previewOut # <<>> => (previewOut[1].threw <=> ~CompleteMarkers(rigMarkers))

\* the markers resolved, once a call has returned a result
Resolved == resolveMarkerPositions(rigMarkers)
RigReturned == rigOut # <<>> /\ ~rigOut[1].threw

\* C21, as stated: the body height is the height of the head-top whenever
\* that is positive, otherwise the height of the chin, otherwise 1.7 m
C21_BodyHeightFromPositiveHead ==
    RigReturned =>
        Resolved.bodyHeight =
            (IF Resolved.head[2] > 0 THEN Resolved.head[2]
             ELSE IF Resolved.chin[2] # 0 THEN Resolved.chin[2] ELSE 1700)

\* C21, amended: the body height is the height of the head-top (the marker,
\* or 0.2 m above the chin without it) whenever that is above 0.1 m,
\* otherwise the height of the chin when that is not 0, negative or not,
\* otherwise 1.7 m; and the envelope radii are taken from it
C21_BodyHeightFromHeadAboveThreshold ==
    RigReturned =>
        /\ Resolved.head = (IF "head" \in DOMAIN rigMarkers THEN rigMarkers["head"]
                            ELSE <<rigMarkers["chin"][1], rigMarkers["chin"][2] + 200,
                                   rigMarkers["chin"][3]>>)
        /\ Resolved.bodyHeight =
              (IF Resolved.head[2] > 100 THEN Resolved.head[2]
               ELSE IF rigMarkers["chin"][2] # 0 THEN rigMarkers["chin"][2] ELSE 1700)
        /\ rigOut[1].segments[1].radius = Resolved.bodyHeight * 8 * 18

C21_Witness ==
    /\ RigReturned /\ "head" \in DOMAIN rigMarkers
    /\ rigMarkers["head"][2] = 50 /\ rigMarkers["chin"][2] = 1700
    /\ rigOut[1].segments[1].radius = 1700 * 8 * 18

\* whether an emitted weight is a number above 0
NonZeroWeight(w) == w.k = "frac" /\ w.n > 0

C23_ThreeChannelsPerVertex ==
    (previewOut # <<>> /\ CompleteMarkers(rigMarkers)) =>
        /\ ~previewOut[1].threw
        /\ Len(previewOut[1].colors) = 3 * rigVerts
        /\ \A k \in DOMAIN previewOut[1].colors : previewOut[1].colors[k] = "set"
        /\ rigVerts = 0 => previewOut[1].colors = <<>>

C23_Witness ==
    /\ previewOut # <<>> /\ CompleteMarkers(rigMarkers) /\ rigVerts = 2
    /\ previewOut[1].colors = <<"set", "set", "set", "set", "set", "set">>

(***************************************************************************)
(* Undo and redo of the store (src/state/history.ts, src/state/store.ts).  *)
(* The tracked slices are boneMapping, riggingMarkers and                  *)
(* retargetSettings.  Positions are in millimetres.  structuredClone       *)
(* copies plain data value for value, and every slice is replaced, never   *)
(* written in place, so a snapshot is the value of the three slices.       *)
(***************************************************************************)
MAX_HISTORY == 50

\* the bound of the model on the number of calls of one behaviour
MaxCalls == 4

\* store.ts:26, the mapping of a fresh store, and mappings a caller passes
NoMapping == {}
BoneMappingPool == {{<<"Hips", "pelvis">>}, {<<"Hips", "pelvis">>, <<"Spine", "spine_01">>}}

\* store.ts:28-34
InitialRetargetSettings ==
    [mode |-> "v1", rootMotion |-> "in-place", forwardAxis |-> "z",
     heightScale |-> TRUE, fps |-> 30]

\* the Partial<RetargetSettings> a caller passes
SettingsPool == {[mode |-> "v2"], [rootMotion |-> "full", fps |-> 60]}

\* store.ts:52-70
InitialRiggingMarkers ==
    [chin |-> <<0, 1700, 100>>, head |-> <<0, 1800, 0>>,
     pelvis |-> <<0, 900, 0>>, spine_mid |-> <<0, 1150, 0>>,
     chest |-> <<0, 1400, 0>>,
     l_shoulder |-> <<180, 1450, -20>>, r_shoulder |-> <<-180, 1450, -20>>,
     l_wrist |-> <<400, 1000, 0>>, r_wrist |-> <<-400, 1000, 0>>,
     l_elbow |-> <<250, 1200, -50>>, r_elbow |-> <<-250, 1200, -50>>,
     l_knee |-> <<100, 500, 50>>, r_knee |-> <<-100, 500, 50>>,
     l_ankle |-> <<100, 80, 20>>, r_ankle |-> <<-100, 80, 20>>,
     l_toe |-> <<100, 20, 100>>, r_toe |-> <<-100, 20, 100>>]

\* the markers and the positions updateRiggingMarker is called with
MovedMarkerPool == {"head", "l_wrist"}
MovedPositionPool == {<<300, 1100, 0>>}

\* a preset handed to setRiggingMarkers (RiggingPanel.tsx:51-52)
PresetPool == {[InitialRiggingMarkers EXCEPT !.head = <<0, 1600, 0>>,
                                             !.chin = <<0, 1500, 100>>]}

\* the object the store actions hand to captureSnapshot, popUndo and popRedo
UndoableSnapshot(bm, rm, rs) ==
    [boneMapping |-> bm, riggingMarkers |-> rm, retargetSettings |-> rs]

Current == UndoableSnapshot(boneMapping, riggingMarkers, retargetSettings)

\* history.ts:41-50, the cached snapshot notify rebuilds
notify(past, future) ==
    [canUndo |-> Len(past) > 0, canRedo |-> Len(future) > 0,
     undoCount |-> Len(past), redoCount |-> Len(future)]

\* Array.prototype.shift and Array.prototype.pop
shift(a) == SubSeq(a, 2, Len(a))
pop(a) == SubSeq(a, 1, Len(a) - 1)

\* captureSnapshot without the shift of the oldest snapshot
captureSnapshotUncapped(past, future, cached, current) ==
    [past |-> Append(past, current), future |-> <<>>,
     cached |-> notify(Append(past, current), <<>>)]

\* captureSnapshot that leaves the redo stack alone
captureSnapshotKeepsFuture(past, future, cached, current) ==
    With(Append(past, current), LAMBDA pushed :
    With(IF Len(pushed) > MAX_HISTORY THEN shift(pushed) ELSE pushed, LAMBDA p :
      [past |-> p, future |-> future, cached |-> notify(p, future)]))

\* history.ts:67-75
captureSnapshot(past, future, cached, current) ==
    With(Append(past, current), LAMBDA pushed :
    With(IF Len(pushed) > MAX_HISTORY THEN shift(pushed) ELSE pushed, LAMBDA p :
      [past |-> p, future |-> <<>>, cached |-> notify(p, <<>>)]))

\* popUndo that does not save the current state for redo
popUndoDropsCurrent(past, future, cached, current) ==
    IF Len(past) = 0
    THEN [past |-> past, future |-> future, cached |-> cached, snapshot |-> Null]
    ELSE [past |-> pop(past), future |-> future,
          cached |-> notify(pop(past), future), snapshot |-> past[Len(past)]]

\* popUndo that hands out the oldest snapshot when the stack is empty
popUndoOnEmpty(past, future, cached, current) ==
    IF Len(past) = 0
    THEN [past |-> past, future |-> Append(future, current),
          cached |-> notify(past, Append(future, current)), snapshot |-> current]
    ELSE [past |-> pop(past), future |-> Append(future, current),
          cached |-> notify(pop(past), Append(future, current)),
          snapshot |-> past[Len(past)]]

\* history.ts:81-91; snapshot is Null for null
popUndo(past, future, cached, current) ==
    IF Len(past) = 0
    THEN [past |-> past, future |-> future, cached |-> cached, snapshot |-> Null]
    ELSE [past |-> pop(past), future |-> Append(future, current),
          cached |-> notify(pop(past), Append(future, current)),
          snapshot |-> past[Len(past)]]

\* history.ts:97-107
popRedo(past, future, cached, current) ==
    IF Len(future) = 0
    THEN [past |-> past, future |-> future, cached |-> cached, snapshot |-> Null]
    ELSE [past |-> Append(past, current), future |-> pop(future),
          cached |-> notify(Append(past, current), pop(future)),
          snapshot |-> future[Len(future)]]

\* history.ts:110-114
clearHistory == [past |-> <<>>, future |-> <<>>, cached |-> notify(<<>>, <<>>)]

\* { ...a, ...b } of two plain objects
Spread(a, b) ==
    [k \in DOMAIN a \cup DOMAIN b |-> IF k \in DOMAIN b THEN b[k] ELSE a[k]]

\* the marker names that come as a left and a right one
SideStems == {"shoulder", "wrist", "elbow", "knee", "ankle", "toe"}

\* store.ts:197-201, the marker updateRiggingMarker mirrors, <<>> for null:
\* name.startsWith('l_') ? name.replace('l_', 'r_') : ...
mirrorName(name) ==
    IF \E s \in SideStems : name = "l_" \o s
    THEN <<"r_" \o (CHOOSE s \in SideStems : name = "l_" \o s)>>
    ELSE IF \E s \in SideStems : name = "r_" \o s
    THEN <<"l_" \o (CHOOSE s \in SideStems : name = "r_" \o s)>>
    ELSE <<>>

\* store.ts:192-209, the riggingMarkers updateRiggingMarker sets
updateRiggingMarker(markers, mirror, name, position) ==
    With(Spread(markers, [k \in {name} |-> position]), LAMBDA newMarkers :
      IF mirror /\ mirrorName(name) # <<>>
      THEN Spread(newMarkers, [k \in {mirrorName(name)[1]} |->
                                 <<-position[1], position[2], position[3]>>])
      ELSE newMarkers)

\* what a call leaves in lastCall: its name, the tracked slices and the two
\* stacks as they were when it was made, "null" or "applied" for an undo or
\* a redo, and the name and the result of the call before it
Call(op, result) ==
    [op |-> op, before |-> Current, past |-> _past, future |-> _future,
     result |-> result, prev |-> lastCall.op, prevResult |-> lastCall.result]

\* the history after a call that hands h back
SetHistory(h) ==
    /\ _past' = h.past
    /\ _future' = h.future
    /\ _cachedSnapshot' = h.cached

\* store.ts:125-129
UpdateBoneMapping ==
    /\ calls < MaxCalls
    /\ \E m \in BoneMappingPool :
         /\ SetHistory(captureSnapshot(_past, _future, _cachedSnapshot, Current))
         /\ boneMapping' = m
    /\ lastCall' = Call("updateBoneMapping", "done")
    /\ calls' = calls + 1
    /\ UNCHANGED <<riggingMarkers, retargetSettings, riggingMirrorEnabled>>

\* store.ts:133-137
UpdateRetargetSettings ==
    /\ calls < MaxCalls
    /\ \E settings \in SettingsPool :
         /\ SetHistory(captureSnapshot(_past, _future, _cachedSnapshot, Current))
         /\ retargetSettings' = Spread(retargetSettings, settings)
    /\ lastCall' = Call("updateRetargetSettings", "done")
    /\ calls' = calls + 1
    /\ UNCHANGED <<boneMapping, riggingMarkers, riggingMirrorEnabled>>

\* store.ts:165-168
PushSnapshot ==
    /\ calls < MaxCalls
    /\ SetHistory(captureSnapshot(_past, _future, _cachedSnapshot, Current))
    /\ lastCall' = Call("pushSnapshot", "done")
    /\ calls' = calls + 1
    /\ UNCHANGED storeVars

\* set({ ...snapshot }) of undo and redo (store.ts:174-176, 183-185)
Apply(snapshot) ==
    IF snapshot = Null
    THEN UNCHANGED <<boneMapping, riggingMarkers, retargetSettings>>
    ELSE /\ boneMapping' = snapshot.boneMapping
         /\ riggingMarkers' = snapshot.riggingMarkers
         /\ retargetSettings' = snapshot.retargetSettings

\* store.ts:170-177
Undo ==
    /\ calls < MaxCalls
    /\ \E r \in {popUndo(_past, _future, _cachedSnapshot, Current)} :
         /\ SetHistory(r)
         /\ Apply(r.snapshot)
         /\ lastCall' = Call("undo", IF r.snapshot = Null THEN "null" ELSE "applied")
    /\ calls' = calls + 1
    /\ UNCHANGED riggingMirrorEnabled

\* store.ts:179-186
Redo ==
    /\ calls < MaxCalls
    /\ \E r \in {popRedo(_past, _future, _cachedSnapshot, Current)} :
         /\ SetHistory(r)
         /\ Apply(r.snapshot)
         /\ lastCall' = Call("redo", IF r.snapshot = Null THEN "null" ELSE "applied")
    /\ calls' = calls + 1
    /\ UNCHANGED riggingMirrorEnabled

\* history.ts:110-114
ClearHistory ==
    /\ calls < MaxCalls
    /\ SetHistory(clearHistory)
    /\ lastCall' = Call("clearHistory", "done")
    /\ calls' = calls + 1
    /\ UNCHANGED storeVars

\* store.ts:192-209
UpdateRiggingMarker ==
    /\ calls < MaxCalls
    /\ \E name \in MovedMarkerPool, position \in MovedPositionPool :
         riggingMarkers' =
             updateRiggingMarker(riggingMarkers, riggingMirrorEnabled, name, position)
    /\ lastCall' = Call("updateRiggingMarker", "done")
    /\ calls' = calls + 1
    /\ UNCHANGED <<boneMapping, retargetSettings, riggingMirrorEnabled,
                   _past, _future, _cachedSnapshot>>

\* store.ts:211
SetRiggingMirror ==
    /\ calls < MaxCalls
    /\ \E enabled \in BOOLEAN : riggingMirrorEnabled' = enabled
    /\ lastCall' = Call("setRiggingMirror", "done")
    /\ calls' = calls + 1
    /\ UNCHANGED <<boneMapping, riggingMarkers, retargetSettings,
                   _past, _future, _cachedSnapshot>>

\* store.ts:213
SetRiggingMarkers ==
    /\ calls < MaxCalls
    /\ \E markers \in PresetPool : riggingMarkers' = markers
    /\ lastCall' = Call("setRiggingMarkers", "done")
    /\ calls' = calls + 1
    /\ UNCHANGED <<boneMapping, retargetSettings, riggingMirrorEnabled,
                   _past, _future, _cachedSnapshot>>

\* the numbers of pushSnapshot calls a fresh store has seen when the
\* behaviour starts
PrefillPool == {0, MAX_HISTORY - 1, MAX_HISTORY}

\* The store as create() builds it (store.ts:21-83) with the history of
\* history.ts:29-39, after k calls of pushSnapshot.
InitHistory0 ==
    /\ boneMapping = NoMapping
    /\ riggingMarkers = InitialRiggingMarkers
    /\ retargetSettings = InitialRetargetSettings
    /\ riggingMirrorEnabled = TRUE
    /\ \E k \in PrefillPool :
         /\ _past = [i \in 1..k |-> UndoableSnapshot(NoMapping, InitialRiggingMarkers,
                                                      InitialRetargetSettings)]
         /\ _cachedSnapshot = [canUndo |-> k > 0, canRedo |-> FALSE,
                               undoCount |-> k, redoCount |-> 0]
    /\ _future = <<>>
    /\ lastCall = [op |-> "create", before |-> Current, past |-> <<>>,
                   future |-> <<>>, result |-> "done", prev |-> "none",
                   prevResult |-> "none"]
    /\ calls = 0

InitHistory ==
    InitHistory0 /\ IdleMatch /\ IdleWeights /\ IdleRetarget /\ IdleIK /\ IdleRig

NextHistory ==
    /\ \/ UpdateBoneMapping
       \/ UpdateRetargetSettings
       \/ PushSnapshot
       \/ Undo
       \/ Redo
       \/ ClearHistory
       \/ UpdateRiggingMarker
       \/ SetRiggingMirror
       \/ SetRiggingMarkers
    /\ UNCHANGED <<matchVars, weightVars, retargetVars, ikVars, rigVars>>

SpecHistory == InitHistory /\ [][NextHistory]_vars

\* the store actions that call captureSnapshot (store.ts:127, 135, 167)
CaptureCalls == {"updateBoneMapping", "updateRetargetSettings", "pushSnapshot"}

\* C24: every call of updateBoneMapping, updateRetargetSettings or
\* pushSnapshot leaves the redo stack empty, so that canRedo is false and
\* popRedo would return null; and an empty redo stack stays empty until an
\* undo is made.
C24_CaptureEmptiesRedo ==
    [][calls' = calls + 1 =>
         /\ lastCall'.op \in CaptureCalls =>
              /\ _future' = <<>>
              /\ ~_cachedSnapshot'.canRedo
              /\ popRedo(_past', _future', _cachedSnapshot', Current').snapshot = Null
         /\ (_future = <<>> /\ _future' # <<>>) => lastCall'.op = "undo"]_vars

\* a capture that found snapshots on the redo stack
C24_Witness ==
    /\ lastCall.op \in CaptureCalls
    /\ lastCall.future # <<>>
    /\ _future = <<>>

\* C25: an undo made while the undo stack is empty gets null from popUndo
\* and changes neither the tracked slices nor the two stacks nor the cached
\* history state; likewise a redo made while the redo stack is empty.
C25_EmptyPopChangesNothing ==
    [][calls' = calls + 1 =>
         /\ (lastCall'.op = "undo" /\ _past = <<>>) =>
              /\ lastCall'.result = "null"
              /\ UNCHANGED <<storeVars, _past, _future, _cachedSnapshot>>
         /\ (lastCall'.op = "redo" /\ _future = <<>>) =>
              /\ lastCall'.result = "null"
              /\ UNCHANGED <<storeVars, _past, _future, _cachedSnapshot>>]_vars

\* an undo that found the undo stack empty while the redo stack was not
C25_Witness ==
    /\ lastCall.op = "undo"
    /\ lastCall.past = <<>>
    /\ lastCall.future # <<>>
    /\ lastCall.result = "null"

\* C28: whatever calls were made, the undo stack holds at most MAX_HISTORY
\* snapshots.
C28_UndoStackBounded == Len(_past) <= MAX_HISTORY

\* a capture made while the undo stack was full: the oldest snapshot went
C28_Witness ==
    /\ lastCall.op \in CaptureCalls
    /\ Len(lastCall.past) = MAX_HISTORY
    /\ Len(_past) = MAX_HISTORY
    /\ _past[MAX_HISTORY] = lastCall.before

\* C29 as stated: a redo made right after an undo leaves the tracked slices
\* and the two stacks as they were before the undo.
C29_UndoRedoRestores ==
    [][(calls' = calls + 1 /\ lastCall.op = "undo" /\ lastCall'.op = "redo") =>
         /\ Current' = lastCall.before
         /\ _past' = lastCall.past
         /\ _future' = lastCall.future]_vars

\* C29, amended: a redo made right after an undo that found a snapshot on
\* the undo stack leaves the tracked slices and the two stacks as they were
\* before the undo.
C29_AppliedUndoRedoRestores ==
    [][(/\ calls' = calls + 1
        /\ lastCall.op = "undo"
        /\ lastCall.result = "applied"
        /\ lastCall'.op = "redo") =>
         /\ Current' = lastCall.before
         /\ _past' = lastCall.past
         /\ _future' = lastCall.future]_vars

\* a redo right after an undo that had changed a tracked slice
C29_Witness ==
    /\ lastCall.op = "redo"
    /\ lastCall.result = "applied"
    /\ lastCall.prev = "undo"
    /\ lastCall.prevResult = "applied"
    /\ Current # lastCall.before

\* the store actions that write a tracked slice (store.ts:125-137, 192-213)
ChangeCalls ==
    {"updateBoneMapping", "updateRetargetSettings", "updateRiggingMarker",
     "setRiggingMarkers"}

\* the tracked slices an undo made now would leave (store.ts:170-177)
AfterUndo ==
    With(popUndo(_past, _future, _cachedSnapshot, Current), LAMBDA r :
      IF r.snapshot = Null THEN Current ELSE r.snapshot)

\* C30: right after a store action has written a tracked slice, an undo
\* gives that slice the value it had just before the action and leaves the
\* other tracked slices as they were.
C30_EveryChangeUndoable ==
    lastCall.op \in ChangeCalls => AfterUndo = lastCall.before

\* the log entries by which the caller reports a terminal outcome of the
\* run: SUCCESS applied, worker ERROR, worker crash, timeout
OutcomeLogs ==
    SelectSeq(logs, LAMBDA l :
        l.what \in {"retargeted", "retarget failed", "worker error", "timeout"})

\* C26: the caller acts on at most one terminal outcome of a run; once the
\* timeout has fired nothing changes the active clip, the loading state or
\* the worker status any more; and once a terminal message or a crash has
\* been handled the timeout does not fire.
C26_OneTerminalOutcome ==
    [][/\ Len(OutcomeLogs') <= 1
       /\ timer = "fired" => UNCHANGED <<activeClip, isLoading, workerStatus>>
       /\ TerminalHandled => timer' # "fired"]_vars

\* C27: once runRetarget has dispatched a request, the loading state is
\* eventually cleared and the worker status eventually is IDLE or ERROR,
\* whether the worker answers, crashes or stays silent.
C27_LoadingEventuallyCleared ==
    (cpc = "dispatched") ~> (~isLoading /\ workerStatus \in {"IDLE", "ERROR"})

\* a run whose worker never posted anything, ended by the timeout
C27_Witness ==
    /\ cpc = "dispatched"
    /\ posted = <<>>
    /\ ~crashPending /\ wpc # "crashed"
    /\ timer = "fired"
    /\ ~isLoading
    /\ workerStatus = "ERROR"
=============================================================================
